---- MODULE Spec2Model ----
(***************************************************************************)
(* A model of gofpdi: the PDF reader (cross-reference tables, object       *)
(* resolution, page tree, page queries), the writer that turns imported    *)
(* pages into Form XObjects, and the Importer facade in front of both.     *)
(***************************************************************************)
EXTENDS Integers, Sequences, FiniteSets, TLC

VARIABLES
    files,      \* the source byte streams handed to SetSourceStream (input, fixed by Init)
    readers,    \* the PdfReader made from each stream (Nil: none yet); a *PdfReader is an index
    imp,        \* the Importer
    pw,         \* the Importer's PdfWriter
    call,       \* the call in progress and where it stands (Nil: none)
    ret         \* what the last call returned to the caller

vars == <<files, readers, imp, pw, call, ret>>

\* what a call returns: the operation, its arguments, its value, its error
Return(op, arg, val, err) == [op |-> op, arg |-> arg, val |-> val, err |-> err]

(***************************************************************************)
(* PdfValue                                                                *)
(***************************************************************************)
PDFTypeNull == 0
PDFTypeNumeric == 1
PDFTypeToken == 2
PDFTypeHex == 3
PDFTypeString == 4
PDFTypeDictionary == 5
PDFTypeArray == 6
PDFTypeObjDec == 7
PDFTypeObjRef == 8
PDFTypeObject == 9
PDFTypeStream == 10
PDFTypeBoolean == 11
PDFTypeReal == 12

\* a nil pointer
Nil == [nil |-> TRUE]

\* error values: ErrNil is Go's nil error, Panic a run-time panic (nil
\* dereference, index out of range); any other string is an error message
ErrNil == "nil"
Panic == "panic"

\* &PdfValue{}: every field at its zero value
PdfValue ==
    [Type |-> PDFTypeNull, String |-> "", Token |-> "", Int |-> 0, Real |-> 0,
     Bool |-> FALSE, Dictionary |-> <<>>, Array |-> <<>>, ID |-> 0, NewID |-> 0,
     Gen |-> 0, Value |-> Nil, Stream |-> Nil]

\* the values readValue builds
Numeric(n) == [PdfValue EXCEPT !.Type = PDFTypeNumeric, !.Token = ToString(n), !.Int = n, !.Real = n]
Token(t) == [PdfValue EXCEPT !.Type = PDFTypeToken, !.Token = t]
ObjRef(id, gen) == [PdfValue EXCEPT !.Type = PDFTypeObjRef, !.ID = id, !.Gen = gen]
Dictionary(d) == [PdfValue EXCEPT !.Type = PDFTypeDictionary, !.Token = "<<", !.Dictionary = d]
Array(a) == [PdfValue EXCEPT !.Type = PDFTypeArray, !.Token = "[", !.Array = a]

\* m[k] on a Go map: the zero value when the key is missing
Lookup(m, k) == IF k \in DOMAIN m THEN m[k] ELSE Nil
Has(m, k) == k \in DOMAIN m

\* v.Dictionary of a possibly nil *PdfValue is read only behind this guard
IsNil(v) == v = Nil

(***************************************************************************)
(* Cross-reference acquisition                                             *)
(***************************************************************************)
\* rows of one classic subsection, object ids start, start+1, ...
RECURSIVE readXrefRows(_, _, _, _)
readXrefRows(xref, start, rows, k) ==
    IF k > Len(rows) THEN xref
    ELSE readXrefRows(((start + k - 1) :> (rows[k].gen :> rows[k].pos)) @@ xref, start, rows, k + 1)

RECURSIVE readXrefSubsections(_, _, _)
readXrefSubsections(xref, subs, k) ==
    IF k > Len(subs) THEN xref
    ELSE readXrefSubsections(readXrefRows(xref, subs[k].start, subs[k].rows, 1), subs, k + 1)

\* decoded rows of a cross-reference stream: flag, field 2, field 3
RECURSIVE readXrefStreamRows(_, _, _, _)
readXrefStreamRows(maps, i, rows, k) ==
    IF k > Len(rows) THEN maps
    ELSE LET row == rows[k]
             next == IF row.flag = 1
                        THEN [maps EXCEPT !.xref = (i :> (row.f3 :> row.f2)) @@ @]
                     ELSE IF row.flag = 2
                        THEN [maps EXCEPT !.xrefStream = (i :> <<row.f2, row.f3>>) @@ @]
                     ELSE maps
         IN readXrefStreamRows(next, i + 1, rows, k + 1)

\* abs of the png library: (x ^ m) - m with m the sign of x
abs(x) == IF x < 0 THEN -x ELSE x

\* the predictor the png library picks from left a, above b, upper left c
paethPick(a, b, c) ==
    IF abs(b - c) <= abs(a - c) /\ abs(b - c) <= abs((b - c) + (a - c)) THEN a
    ELSE IF abs(a - c) <= abs((b - c) + (a - c)) THEN b
    ELSE c

\* filterPaeth, the inner loop: j runs from i in steps of bytesPerPixel, a is
\* the byte written last and c the byte above it
RECURSIVE filterPaethColumn(_, _, _, _, _, _)
filterPaethColumn(cdat, pdat, bytesPerPixel, j, a, c) ==
    IF j >= Len(cdat) THEN cdat
    ELSE filterPaethColumn([cdat EXCEPT ![j + 1] = (paethPick(a, pdat[j + 1], c) + cdat[j + 1]) % 256],
                           pdat, bytesPerPixel, j + bytesPerPixel,
                           (paethPick(a, pdat[j + 1], c) + cdat[j + 1]) % 256, pdat[j + 1])

\* filterPaeth, the outer loop over the bytes of a pixel
RECURSIVE filterPaethFrom(_, _, _, _)
filterPaethFrom(cdat, pdat, bytesPerPixel, i) ==
    IF i >= bytesPerPixel THEN cdat
    ELSE filterPaethFrom(filterPaethColumn(cdat, pdat, bytesPerPixel, i, 0, 0), pdat, bytesPerPixel, i + 1)

\* filterPaeth(cdat, pdat, bytesPerPixel): the row cdat after the call
filterPaeth(cdat, pdat, bytesPerPixel) == filterPaethFrom(cdat, pdat, bytesPerPixel, 0)

\* binary.BigEndian.Uint32 of the bytes copied to the end of four zero bytes
RECURSIVE BigEndian(_)
BigEndian(b) == IF b = <<>> THEN 0 ELSE BigEndian(SubSeq(b, 1, Len(b) - 1)) * 256 + b[Len(b)]

\* the fields read from objectData for the field sizes of /W
rowOf(objectData, firstFieldSize, middleFieldSize) ==
    [flag |-> objectData[1],
     f2 |-> BigEndian(SubSeq(objectData, 2, 1 + middleFieldSize)),
     f3 |-> objectData[firstFieldSize + middleFieldSize + 1]]

\* the loop over the rows of a predicted stream: every row of fieldSize bytes
\* goes through filterPaeth with the row before it, and loses its first byte
RECURSIVE decodeRows(_, _, _, _, _, _)
decodeRowsNext(data, k, result, fieldSize, firstFieldSize, middleFieldSize) ==
    <<rowOf(SubSeq(result, 2, fieldSize), firstFieldSize, middleFieldSize)>>
    \o decodeRows(data, k + 1, result, fieldSize, firstFieldSize, middleFieldSize)

decodeRows(data, k, prevRow, fieldSize, firstFieldSize, middleFieldSize) ==
    IF k > Len(data) THEN <<>>
    ELSE decodeRowsNext(data, k, filterPaeth(data[k], prevRow, fieldSize),
                        fieldSize, firstFieldSize, middleFieldSize)

\* the rows of a cross-reference stream: those of a stream without
\* /DecodeParms are kept decoded, those of a predicted stream as bytes
StreamRows(sec, v) ==
    IF ~Has(v.Dictionary, "/DecodeParms") THEN sec.rows
    ELSE decodeRows(sec.data, 1,
                    [i \in 1..(v.Dictionary["/W"].Array[1].Int + v.Dictionary["/W"].Array[2].Int
                               + v.Dictionary["/W"].Array[3].Int + 1) |-> 0],
                    v.Dictionary["/W"].Array[1].Int + v.Dictionary["/W"].Array[2].Int
                        + v.Dictionary["/W"].Array[3].Int + 1,
                    v.Dictionary["/W"].Array[1].Int, v.Dictionary["/W"].Array[2].Int)

\* "Unsupported /DecodeParms": /Columns above 4 or /Predictor above 12
UnsupportedParms(v) ==
    /\ Has(v.Dictionary, "/DecodeParms")
    /\ \/ Lookup(v.Dictionary["/DecodeParms"].Dictionary, "/Columns") # Nil
          /\ v.Dictionary["/DecodeParms"].Dictionary["/Columns"].Int > 4
       \/ Lookup(v.Dictionary["/DecodeParms"].Dictionary, "/Predictor") # Nil
          /\ v.Dictionary["/DecodeParms"].Dictionary["/Predictor"].Int > 12

\* the size of the buffer bufio.NewReader reads the stream through
BufSize == 4096

\* the number of bytes of a source stream: its last object or section ends it
FileLength(f) ==
    LET at == DOMAIN f.body \cup DOMAIN f.xrefs \cup {f.startxref}
    IN (CHOOSE m \in at : \A o \in at : o <= m) + 10

\* the position of the stream after a buffered reader has been filled from
\* offset: one buffer further, or the end of the stream
Fill(f, offset) ==
    IF offset >= FileLength(f) THEN offset
    ELSE IF offset + BufSize < FileLength(f) THEN offset + BufSize
    ELSE FileLength(f)

RECURSIVE readXref(_)
readXrefAt(pr) ==
    LET f == files[pr.f] IN
    IF pr.xrefPos \notin DOMAIN f.xrefs
    THEN [pr |-> pr, err |-> "Expected xref to start with 'xref'"]
    ELSE
    LET sec == f.xrefs[pr.xrefPos] IN
    IF sec.kind = "table"
    THEN LET pr1 == [pr EXCEPT !.xref = readXrefSubsections(pr.xref, sec.subs, 1)]
             trailer == sec.dict
             pr2 == IF Has(trailer.Dictionary, "/Root") THEN [pr1 EXCEPT !.trailer = trailer] ELSE pr1
         IN IF Has(trailer.Dictionary, "/Prev")
            THEN readXref([pr2 EXCEPT !.xrefPos = trailer.Dictionary["/Prev"].Int])
            ELSE [pr |-> pr2, err |-> ErrNil]
    ELSE
    LET v == sec.dict IN
    IF ~(Has(v.Dictionary, "/Type") /\ v.Dictionary["/Type"].Token = "/XRef")
    THEN [pr |-> pr, err |-> ErrNil]
    ELSE IF UnsupportedParms(v)
    THEN [pr |-> pr, err |-> "Unsupported /DecodeParms - only tested with /Columns <= 4 and /Predictor <= 12"]
    ELSE IF Has(v.Dictionary, "/Index") /\ Len(v.Dictionary["/Index"].Array) < 2
    THEN [pr |-> pr, err |-> "Index array does not contain 2 elements"]
    ELSE
    LET startObject == IF Has(v.Dictionary, "/Index") THEN v.Dictionary["/Index"].Array[1].Int ELSE 0
        prevXref == IF Has(v.Dictionary, "/Prev") THEN v.Dictionary["/Prev"].Int ELSE 0
        pr1 == IF Has(v.Dictionary, "/Root") THEN [pr EXCEPT !.trailer = v] ELSE pr
        maps == readXrefStreamRows([xref |-> pr1.xref, xrefStream |-> pr1.xrefStream],
                                   startObject, StreamRows(sec, v), 1)
        pr2 == [pr1 EXCEPT !.xref = maps.xref, !.xrefStream = maps.xrefStream]
    IN IF prevXref > 0
       THEN readXref([pr2 EXCEPT !.xrefPos = prevXref])
       ELSE [pr |-> pr2, err |-> ErrNil]

\* readXref: the stream is moved to the section and read through a buffer
readXref(pr) == readXrefAt([pr EXCEPT !.pos = Fill(files[pr.f], pr.xrefPos)])

(***************************************************************************)
(* Object resolution                                                       *)
(***************************************************************************)
\* (nil, err): a panic is never wrapped into an error value
Fail(r, msg) == [val |-> Nil, err |-> IF r.err = Panic THEN Panic ELSE msg]
FailPr(pr, r, msg) == [pr |-> pr, err |-> IF r.err = Panic THEN Panic ELSE msg]

\* the object definition "id gen obj ... endobj" parsed at a byte offset
ObjectAt(pr, offset) == Lookup(files[pr.f].body, offset)

\* pr.xref[objSpec.ID][objSpec.Gen]
XrefOffset(pr, objSpec) ==
    IF Has(pr.xref[objSpec.ID], objSpec.Gen) THEN pr.xref[objSpec.ID][objSpec.Gen] ELSE 0

\* ResolveObject once the object header at the offset has been read
readObject(objSpec, obj) ==
    IF IsNil(obj) THEN [val |-> Nil, err |-> "expected type to be PDF_TYPE_OBJDEC"]
    ELSE IF obj.ID # objSpec.ID THEN [val |-> Nil, err |-> "object ID does not match ObjSpec ID"]
    ELSE IF obj.Gen # objSpec.Gen THEN [val |-> Nil, err |-> "Object Gen does not match ObjSpec Gen"]
    ELSE [val |-> [PdfValue EXCEPT !.ID = obj.ID, !.Gen = obj.Gen,
                                   !.Type = IF IsNil(obj.Stream) THEN PDFTypeObject ELSE PDFTypeStream,
                                   !.Value = obj.Value, !.Stream = obj.Stream],
          err |-> ErrNil]

\* the sub-object at objectIndex of the resolved object stream c
readSubObject(objectIndex, c) ==
    IF c.err # ErrNil THEN Fail(c, "Failed to resolve compressed object")
    ELSE IF IsNil(c.val.Value) THEN [val |-> Nil, err |-> Panic]
    ELSE IF ~Has(c.val.Value.Dictionary, "/Type")
    THEN [val |-> Nil, err |-> "could not determine compressed object type"]
    ELSE IF c.val.Value.Dictionary["/Type"].Token # "/ObjStm"
    THEN [val |-> Nil, err |-> "Expected compressed object type to be /ObjStm"]
    ELSE IF ~Has(c.val.Value.Dictionary, "/N") \/ ~Has(c.val.Value.Dictionary, "/First") \/ IsNil(c.val.Stream)
    THEN [val |-> Nil, err |-> Panic]
    ELSE IF c.val.Value.Dictionary["/N"].Int <= 0
    THEN [val |-> Nil, err |-> "No sub objects in compressed object"]
    ELSE IF Len(c.val.Stream.pairs) < c.val.Value.Dictionary["/N"].Int
    THEN [val |-> Nil, err |-> "Failed to convert token into integer"]
    ELSE
    LET hit == objectIndex >= 0 /\ objectIndex < c.val.Value.Dictionary["/N"].Int
        subObjID == IF hit THEN c.val.Stream.pairs[objectIndex + 1].id ELSE 0
        subObjPos == IF hit THEN c.val.Stream.pairs[objectIndex + 1].pos ELSE 0
    IN
    IF ~Has(c.val.Stream.objs, subObjPos)
    THEN [val |-> Nil, err |-> "Failed to read value for token"]
    ELSE [val |-> [PdfValue EXCEPT !.ID = subObjID, !.Gen = 0, !.Type = PDFTypeObject,
                                   !.Value = c.val.Stream.objs[subObjPos]],
          err |-> ErrNil]

RECURSIVE ResolveObject(_, _)
resolveCompressedObject(pr, objSpec) ==
    IF ~Has(pr.xrefStream, objSpec.ID)
    THEN [val |-> Nil, err |-> "could not find object ID in xref stream or xref table"]
    ELSE readSubObject(pr.xrefStream[objSpec.ID][2],
                       ResolveObject(pr, ObjRef(pr.xrefStream[objSpec.ID][1], 0)))

\* a resolution that hands out the value inside an object it is given
ResolveObjectInside(pr, objSpec) ==
    IF IsNil(objSpec) THEN [val |-> Nil, err |-> Panic]
    ELSE IF objSpec.Type = PDFTypeObject THEN [val |-> objSpec.Value, err |-> ErrNil]
    ELSE IF objSpec.Type # PDFTypeObjRef THEN [val |-> objSpec, err |-> ErrNil]
    ELSE IF ~Has(pr.xref, objSpec.ID) THEN resolveCompressedObject(pr, objSpec)
    ELSE readObject(objSpec, ObjectAt(pr, XrefOffset(pr, objSpec)))

ResolveObject(pr, objSpec) ==
    IF IsNil(objSpec) THEN [val |-> Nil, err |-> Panic]
    ELSE IF objSpec.Type # PDFTypeObjRef THEN [val |-> objSpec, err |-> ErrNil]
    ELSE IF ~Has(pr.xref, objSpec.ID) THEN resolveCompressedObject(pr, objSpec)
    ELSE readObject(objSpec, ObjectAt(pr, XrefOffset(pr, objSpec)))

\* the position ResolveObject leaves the stream at, entered at position pos:
\* the stream is moved to the offset of the object and read through a
\* buffer, and moved back to the position saved once the object is read
RECURSIVE ResolvePos(_, _, _)
ResolvePos(pr, objSpec, pos) ==
    IF IsNil(objSpec) THEN pos
    ELSE IF objSpec.Type # PDFTypeObjRef THEN pos
    ELSE IF ~Has(pr.xref, objSpec.ID)
    THEN IF ~Has(pr.xrefStream, objSpec.ID) THEN pos
         ELSE ResolvePos(pr, ObjRef(pr.xrefStream[objSpec.ID][1], 0), pos)
    ELSE IF readObject(objSpec, ObjectAt(pr, XrefOffset(pr, objSpec))).err = ErrNil THEN pos
    ELSE Fill(files[pr.f], XrefOffset(pr, objSpec))

(***************************************************************************)
(* Page tree                                                               *)
(***************************************************************************)
\* readRoot once the /Root reference of the trailer has been resolved
setCatalog(pr, r) ==
    IF r.err # ErrNil THEN FailPr(pr, r, "Failed to resolve root object")
    ELSE [pr |-> [pr EXCEPT !.catalog = r.val], err |-> ErrNil]

readRoot(pr) ==
    IF IsNil(pr.trailer) THEN [pr |-> pr, err |-> Panic]
    ELSE setCatalog(pr, ResolveObject(pr, Lookup(pr.trailer.Dictionary, "/Root")))

RECURSIVE readKids(_, _, _)

\* readKids after the recursive call on the kids of an inner node
readKidsAfter(sub, kids, i) ==
    IF sub.err = Panic THEN sub
    ELSE IF sub.err # ErrNil THEN [pr |-> sub.pr, err |-> "Failed to read kids"]
    ELSE readKids(sub.pr, kids, i + 1)

\* case "/Pages" of readKids, sk the resolved /Kids of the inner node
readKidsInner(pr, sk, kids, i) ==
    IF sk.err # ErrNil THEN FailPr(pr, sk, "Failed to resolve kids")
    ELSE readKidsAfter(readKids(pr, sk.val, 1), kids, i)

\* one iteration of readKids, r the resolved element i of kids
readKid(pr, r, kids, i) ==
    IF r.err # ErrNil THEN FailPr(pr, r, "Failed to resolve page/pages object")
    ELSE IF IsNil(r.val.Value) THEN [pr |-> pr, err |-> Panic]
    ELSE IF ~Has(r.val.Value.Dictionary, "/Type") THEN [pr |-> pr, err |-> Panic]
    ELSE IF r.val.Value.Dictionary["/Type"].Token = "/Page"
    THEN IF pr.curPage >= Len(pr.pages)
         THEN [pr |-> pr, err |-> Panic]
         ELSE readKids([pr EXCEPT !.pages[pr.curPage + 1] = r.val, !.curPage = @ + 1], kids, i + 1)
    ELSE IF r.val.Value.Dictionary["/Type"].Token = "/Pages"
    THEN readKidsInner(pr, ResolveObject(pr, Lookup(r.val.Value.Dictionary, "/Kids")), kids, i)
    ELSE [pr |-> pr, err |-> "Unknown object type.  Expected: /Pages or /Page"]

\* the loop of readKids from element i of kids.Array on
readKids(pr, kids, i) ==
    IF i > Len(kids.Array) THEN [pr |-> pr, err |-> ErrNil]
    ELSE readKid(pr, ResolveObject(pr, kids.Array[i]), kids, i)

\* readPages after readKids has returned
readPagesAfter(rk) ==
    IF rk.err = Panic \/ rk.err = ErrNil THEN rk
    ELSE [pr |-> rk.pr, err |-> "Failed to read kids"]

\* readPages, kids and pageCount the resolved /Kids and /Count of the page tree root
readPagesCount(pr, kids, pageCount) ==
    IF pageCount.err # ErrNil THEN FailPr(pr, pageCount, "Failed to get page count")
    ELSE IF pageCount.val.Int < 0 THEN [pr |-> pr, err |-> Panic]
    ELSE readPagesAfter(readKids([pr EXCEPT !.pageCount = pageCount.val.Int,
                                            !.pages = [k \in 1..pageCount.val.Int |-> Nil]],
                                 kids.val, 1))

readPagesKids(pr, pagesDict, kids) ==
    IF kids.err # ErrNil THEN FailPr(pr, kids, "Failed to resolve kids object")
    ELSE readPagesCount(pr, kids, ResolveObject(pr, Lookup(pagesDict.Value.Dictionary, "/Count")))

\* readPages, pd the resolved /Pages of the catalog
readPagesDict(pr, pd) ==
    IF pd.err # ErrNil THEN FailPr(pr, pd, "Failed to resolve pages object")
    ELSE IF IsNil(pd.val.Value) THEN [pr |-> pr, err |-> Panic]
    ELSE readPagesKids(pr, pd.val, ResolveObject(pr, Lookup(pd.val.Value.Dictionary, "/Kids")))

readPages(pr) ==
    IF IsNil(pr.catalog.Value) THEN [pr |-> pr, err |-> Panic]
    ELSE readPagesDict(pr, ResolveObject(pr, Lookup(pr.catalog.Value.Dictionary, "/Pages")))

\* findXref: the offset after the last startxref keyword of the file
findXref(pr) == [pr |-> [pr EXCEPT !.xrefPos = files[pr.f].startxref, !.pos = 0], err |-> ErrNil]

\* the steps of read, each skipped once an earlier one has failed
readXrefStep(a) == IF a.err # ErrNil THEN a ELSE readXref(a.pr)
readRootStep(b) == IF b.err # ErrNil THEN b ELSE readRoot(b.pr)
readPagesStep(c) == IF c.err # ErrNil THEN c ELSE readPages(c.pr)
readDone(d) == IF d.err # ErrNil THEN d ELSE [pr |-> [d.pr EXCEPT !.alreadyRead = TRUE], err |-> ErrNil]

read(pr) ==
    IF pr.alreadyRead THEN [pr |-> pr, err |-> ErrNil]
    ELSE readDone(readPagesStep(readRootStep(readXrefStep(findXref(pr)))))

\* NewPdfReaderFromStream over source file number f
NewPdfReaderFromStream(f) ==
    read([f |-> f, stack |-> <<>>, trailer |-> Nil, catalog |-> Nil, pages |-> <<>>,
          xrefPos |-> 0, xref |-> <<>>, xrefStream |-> <<>>, SourceFile |-> "",
          curPage |-> 0, alreadyRead |-> FALSE, pageCount |-> 0,
          pos |-> FileLength(files[f])])

GetNumPages(pr) ==
    IF pr.pageCount = 0 THEN [val |-> 0, err |-> "Page count is 0"]
    ELSE [val |-> pr.pageCount, err |-> ErrNil]

(***************************************************************************)
(* Page queries                                                            *)
(***************************************************************************)
availableBoxes == <<"/MediaBox", "/CropBox", "/BleedBox", "/TrimBox", "/ArtBox">>

Abs(x) == IF x < 0 THEN -x ELSE x
Min(a, b) == IF a < b THEN a ELSE b
Max(a, b) == IF a > b THEN a ELSE b

\* pr.pages[pageno-1] behind the bounds check the three queries share
PageAt(pr, pageno) ==
    IF Len(pr.pages) < pageno THEN [val |-> Nil, err |-> "page does not exist"]
    ELSE IF pageno - 1 < 0 THEN [val |-> Nil, err |-> Panic]
    ELSE [val |-> pr.pages[pageno], err |-> ErrNil]

\* the box read from the array a of four numbers
BoxFrom(a, k) ==
    [x |-> a[1].Real \div k, y |-> a[2].Real \div k,
     w |-> Abs(a[1].Real - a[3].Real) \div k, h |-> Abs(a[2].Real - a[4].Real) \div k,
     llx |-> Min(a[1].Real, a[3].Real), lly |-> Min(a[2].Real, a[4].Real),
     urx |-> Max(a[1].Real, a[3].Real), ury |-> Max(a[2].Real, a[4].Real)]

\* getPageBox once the page carries boxIndex, box its value
boxOfArray(box, k) ==
    IF IsNil(box) THEN [val |-> Nil, err |-> Panic]
    ELSE IF box.Type # PDFTypeArray THEN [val |-> Nil, err |-> "Could not get page box"]
    ELSE IF Len(box.Array) < 4 THEN [val |-> Nil, err |-> Panic]
    ELSE [val |-> BoxFrom(box.Array, k), err |-> ErrNil]

\* the box entry given by reference, r what it resolves to
boxOfRef(r, k) ==
    IF r.err # ErrNil THEN Fail(r, "Failed to resolve object") ELSE boxOfArray(r.val.Value, k)

\* coordinates are whole numbers here and every caller passes k = 1
RECURSIVE getPageBox(_, _, _, _)

\* a lookup that stops at the page and never asks the parent
getPageBoxOfPageOnly(pr, parentObj, boxIndex, k) == [val |-> <<>>, err |-> ErrNil]

\* the page has no boxIndex: its resolved /Parent is asked
getPageBoxOfParent(pr, parentObj, boxIndex, k) ==
    IF parentObj.err # ErrNil THEN Fail(parentObj, "Could not resolve parent object")
    ELSE getPageBox(pr, parentObj.val, boxIndex, k)

getPageBox(pr, page, boxIndex, k) ==
    IF IsNil(page) THEN [val |-> Nil, err |-> Panic]
    ELSE IF IsNil(page.Value) THEN [val |-> Nil, err |-> Panic]
    ELSE IF Has(page.Value.Dictionary, boxIndex)
    THEN IF page.Value.Dictionary[boxIndex].Type = PDFTypeObjRef
         THEN boxOfRef(ResolveObject(pr, page.Value.Dictionary[boxIndex]), k)
         ELSE boxOfArray(page.Value.Dictionary[boxIndex], k)
    ELSE IF Has(page.Value.Dictionary, "/Parent")
    THEN getPageBoxOfParent(pr, ResolveObject(pr, page.Value.Dictionary["/Parent"]), boxIndex, k)
    ELSE [val |-> <<>>, err |-> ErrNil]

RECURSIVE GetPageBoxesLoop(_, _, _, _, _)

\* one iteration of the loop, box the result of getPageBox
GetPageBoxesPut(pr, page, k, i, result, box) ==
    IF box.err # ErrNil THEN Fail(box, "failed to get page box")
    ELSE GetPageBoxesLoop(pr, page, k, i + 1, (availableBoxes[i] :> box.val) @@ result)

\* the loop of GetPageBoxes over availableBoxes[i..]
GetPageBoxesLoop(pr, page, k, i, result) ==
    IF i > Len(availableBoxes) THEN [val |-> result, err |-> ErrNil]
    ELSE GetPageBoxesPut(pr, page, k, i, result, getPageBox(pr, page, availableBoxes[i], k))

\* GetPageBoxes, page the resolved entry of pr.pages
GetPageBoxesOf(pr, page, k) ==
    IF page.err # ErrNil THEN Fail(page, "failed to resolve page object")
    ELSE GetPageBoxesLoop(pr, page.val, k, 1, <<>>)

GetPageBoxes(pr, pageno, k) ==
    IF PageAt(pr, pageno).err # ErrNil THEN PageAt(pr, pageno)
    ELSE GetPageBoxesOf(pr, ResolveObject(pr, PageAt(pr, pageno).val), k)

RECURSIVE GetAllPageBoxesLoop(_, _, _, _)

GetAllPageBoxesPut(pr, k, i, result, b) ==
    IF b.err # ErrNil THEN Fail(b, "Unable to get page box")
    ELSE GetAllPageBoxesLoop(pr, k, i + 1, (i :> b.val) @@ result)

GetAllPageBoxesLoop(pr, k, i, result) ==
    IF i > Len(pr.pages) THEN [val |-> result, err |-> ErrNil]
    ELSE GetAllPageBoxesPut(pr, k, i, result, GetPageBoxes(pr, i, k))

GetAllPageBoxes(pr, k) == GetAllPageBoxesLoop(pr, k, 1, <<>>)

\* "If type is PDF_TYPE_OBJECT, return its Value; otherwise the resolved object"
ValueOf(res) == IF res.Type = PDFTypeObject THEN res.Value ELSE res

\* the value returned for a resolved /Resources, /Parent or /Rotate entry
Resolved(res, msg) ==
    IF res.err # ErrNil THEN Fail(res, msg) ELSE [val |-> ValueOf(res.val), err |-> ErrNil]

\* GetPageResources, pg the resolved entry of pr.pages
GetPageResourcesOf(pr, pg) ==
    IF pg.err # ErrNil THEN Fail(pg, "Failed to resolve page object")
    ELSE IF IsNil(pg.val.Value) THEN [val |-> Nil, err |-> Panic]
    ELSE IF Has(pg.val.Value.Dictionary, "/Resources")
    THEN Resolved(ResolveObject(pr, pg.val.Value.Dictionary["/Resources"]),
                  "Failed to resolve resources object")
    ELSE IF Has(pg.val.Value.Dictionary, "/Parent")
    THEN Resolved(ResolveObject(pr, pg.val.Value.Dictionary["/Parent"]),
                  "Failed to resolve parent object")
    ELSE [val |-> PdfValue, err |-> ErrNil]

GetPageResources(pr, pageno) ==
    IF PageAt(pr, pageno).err # ErrNil THEN PageAt(pr, pageno)
    ELSE GetPageResourcesOf(pr, ResolveObject(pr, PageAt(pr, pageno).val))

\* Stream payloads are [data |-> <<chunk, ...>>, z |-> layers of zlib around it]
RECURSIVE getPageContent(_, _)
RECURSIVE getPageContentLoop(_, _, _, _)

getPageContentPut(pr, arr, i, contents, t) ==
    IF t.err = Panic THEN t
    ELSE IF t.err # ErrNil THEN [val |-> <<>>, err |-> "Failed to get page content"]
    ELSE getPageContentLoop(pr, arr, i + 1, contents \o t.val)

getPageContentLoop(pr, arr, i, contents) ==
    IF i > Len(arr) THEN [val |-> contents, err |-> ErrNil]
    ELSE getPageContentPut(pr, arr, i, contents, getPageContent(pr, arr[i]))

\* case PDFTypeObjRef of getPageContent, c the resolved object
getPageContentOf(c) ==
    IF c.err = Panic THEN [val |-> <<>>, err |-> Panic]
    ELSE IF c.err # ErrNil THEN [val |-> <<>>, err |-> "Failed to resolve object"]
    ELSE [val |-> <<c.val>>, err |-> ErrNil]

getPageContent(pr, objSpec) ==
    IF IsNil(objSpec) THEN [val |-> <<>>, err |-> Panic]
    ELSE IF objSpec.Type = PDFTypeObjRef THEN getPageContentOf(ResolveObject(pr, objSpec))
    ELSE IF objSpec.Type = PDFTypeArray THEN getPageContentLoop(pr, objSpec.Array, 1, <<>>)
    ELSE [val |-> <<>>, err |-> ErrNil]

\* the filter loop of rebuildContentStream from filters[i] on
RECURSIVE applyFilters(_, _, _)
applyFilters(filters, i, stream) ==
    IF i > Len(filters) THEN [val |-> stream, err |-> ErrNil]
    ELSE IF filters[i].Token = "/FlateDecode"
    THEN IF stream.z = 0 THEN [val |-> stream, err |-> Panic]
         ELSE applyFilters(filters, i + 1, [stream EXCEPT !.z = @ - 1])
    ELSE [val |-> stream, err |-> "Unspported filter"]

\* the filters named by the /Filter entry: one name or an array of names
filtersOf(filter) ==
    IF IsNil(filter) THEN <<>>
    ELSE IF filter.Type = PDFTypeToken THEN <<filter>>
    ELSE IF filter.Type = PDFTypeArray THEN filter.Array
    ELSE <<>>

\* the /Filter entry given by reference, r what it resolves to
rebuildWithRef(content, r) ==
    IF r.err = Panic THEN [val |-> Nil, err |-> Panic]
    ELSE IF r.err # ErrNil THEN [val |-> Nil, err |-> "Failed to resolve object"]
    ELSE IF IsNil(r.val.Value) THEN [val |-> Nil, err |-> Panic]
    ELSE applyFilters(filtersOf(r.val.Value), 1, content.Stream)

rebuildContentStream(pr, content) ==
    IF IsNil(content.Value) \/ IsNil(content.Stream) THEN [val |-> Nil, err |-> Panic]
    ELSE IF Has(content.Value.Dictionary, "/Filter")
            /\ content.Value.Dictionary["/Filter"].Type = PDFTypeObjRef
    THEN rebuildWithRef(content, ResolveObject(pr, content.Value.Dictionary["/Filter"]))
    ELSE applyFilters(filtersOf(Lookup(content.Value.Dictionary, "/Filter")), 1, content.Stream)

RECURSIVE GetContentLoop(_, _, _, _)

GetContentPut(pr, contents, i, buffer, t) ==
    IF t.err = Panic THEN [val |-> <<>>, err |-> Panic]
    ELSE IF t.err # ErrNil THEN [val |-> <<>>, err |-> "Failed to rebuild content stream"]
    ELSE GetContentLoop(pr, contents, i + 1, buffer \o t.val.data)

GetContentLoop(pr, contents, i, buffer) ==
    IF i > Len(contents) THEN [val |-> buffer, err |-> ErrNil]
    ELSE GetContentPut(pr, contents, i, buffer, rebuildContentStream(pr, contents[i]))

\* GetContent, c the list getPageContent made of /Contents
GetContentOf(pr, c) ==
    IF c.err = Panic THEN [val |-> <<>>, err |-> Panic]
    ELSE IF c.err # ErrNil THEN [val |-> <<>>, err |-> "Failed to get page content"]
    ELSE GetContentLoop(pr, c.val, 1, <<>>)

\* GetContent on the entry page of pr.pages
GetContentOfPage(pr, page) ==
    IF IsNil(page) THEN [val |-> <<>>, err |-> Panic]
    ELSE IF IsNil(page.Value) THEN [val |-> <<>>, err |-> Panic]
    ELSE IF ~Has(page.Value.Dictionary, "/Contents") THEN [val |-> <<>>, err |-> ErrNil]
    ELSE GetContentOf(pr, getPageContent(pr, page.Value.Dictionary["/Contents"]))

GetContent(pr, pageno) ==
    IF PageAt(pr, pageno).err # ErrNil THEN [val |-> <<>>, err |-> PageAt(pr, pageno).err]
    ELSE GetContentOfPage(pr, PageAt(pr, pageno).val)

RECURSIVE getPageRotation(_, _)

\* the /Rotate of the parent, res what _getPageRotation returned for it
rotationOfParent(res) ==
    IF res.err = Panic THEN res
    ELSE IF res.err # ErrNil THEN [val |-> Nil, err |-> "Failed to get page rotation for parent"]
    ELSE [val |-> ValueOf(res.val), err |-> ErrNil]

\* _getPageRotation, pg the resolved page
getPageRotationOf(pr, pg) ==
    IF pg.err # ErrNil THEN Fail(pg, "Failed to resolve page object")
    ELSE IF IsNil(pg.val.Value) THEN [val |-> Nil, err |-> Panic]
    ELSE IF Has(pg.val.Value.Dictionary, "/Rotate")
    THEN Resolved(ResolveObject(pr, pg.val.Value.Dictionary["/Rotate"]),
                  "Failed to resolve rotate object")
    ELSE IF Has(pg.val.Value.Dictionary, "/Parent")
    THEN rotationOfParent(getPageRotation(pr, pg.val.Value.Dictionary["/Parent"]))
    ELSE [val |-> PdfValue, err |-> ErrNil]

getPageRotation(pr, page0) == getPageRotationOf(pr, ResolveObject(pr, page0))

GetPageRotation(pr, pageno) ==
    IF PageAt(pr, pageno).err # ErrNil THEN PageAt(pr, pageno)
    ELSE getPageRotation(pr, PageAt(pr, pageno).val)

(***************************************************************************)
(* PdfWriter                                                               *)
(***************************************************************************)
\* m[k] on a map[string]float64: 0 when the key is missing
Coord(m, k) == IF k \in DOMAIN m THEN m[k] ELSE 0

\* Go's / and % truncate toward zero
GoDiv(a, b) == IF a >= 0 THEN a \div b ELSE -((-a) \div b)
GoRem(a, b) == a - b * GoDiv(a, b)

NewPdfWriter ==
    [r |-> 0, tpls |-> <<>>, nextOjbID |-> 0, objStack |-> <<>>, doOobjStack |-> <<>>,
     writtenObjs |-> <<>>, writtenObjPos |-> <<>>,
     currentObj |-> [id |-> Nil, buffer |-> <<>>], tplIDOffset |-> 0, useHash |-> FALSE]

intersectBox(bx, mediabox) ==
    LET lly == IF Coord(bx, "lly") < Coord(mediabox, "lly") THEN Coord(mediabox, "lly") ELSE Coord(bx, "lly")
        llx == IF Coord(bx, "llx") < Coord(mediabox, "llx") THEN Coord(mediabox, "llx") ELSE Coord(bx, "llx")
        ury == IF Coord(bx, "ury") > Coord(mediabox, "ury") THEN Coord(mediabox, "ury") ELSE Coord(bx, "ury")
        urx == IF Coord(bx, "urx") > Coord(mediabox, "urx") THEN Coord(mediabox, "urx") ELSE Coord(bx, "urx")
    IN [x |-> llx, y |-> lly, w |-> urx - llx, h |-> ury - lly,
        llx |-> llx, lly |-> lly, urx |-> urx, ury |-> ury]

\* pb[name] on a map of boxes: the nil map when the name is missing
BoxOf(pb, name) == IF name \in DOMAIN pb THEN pb[name] ELSE <<>>

\* the fallback GetPDFBoxDimensions takes when the requested box is empty
BoxFallback(pb, boxname) ==
    IF boxname = "/CropBox" THEN [val |-> BoxOf(pb, "/MediaBox"), err |-> ErrNil]
    ELSE IF boxname \in {"/ArtBox", "/BleedBox", "/TrimBox"}
    THEN [val |-> BoxOf(pb, "/CropBox"), err |-> ErrNil]
    ELSE [val |-> Nil, err |-> "could not find the box dimensions for the image"]

\* GetPDFBoxDimensions, all the result of GetAllPageBoxes
BoxDimensionsOf(all, p, boxname) ==
    IF all.err # ErrNil THEN all
    ELSE IF DOMAIN BoxOf(BoxOf(all.val, p), boxname) = {} THEN BoxFallback(BoxOf(all.val, p), boxname)
    ELSE IF boxname = "/MediaBox" THEN [val |-> BoxOf(BoxOf(all.val, p), boxname), err |-> ErrNil]
    ELSE [val |-> intersectBox(BoxOf(BoxOf(all.val, p), boxname), BoxOf(BoxOf(all.val, p), "/MediaBox")),
          err |-> ErrNil]

GetPDFBoxDimensions(w, p, boxname) ==
    IF GetNumPages(readers[w.r]).err # ErrNil THEN [val |-> Nil, err |-> GetNumPages(readers[w.r]).err]
    ELSE IF p > GetNumPages(readers[w.r]).val
    THEN [val |-> Nil, err |-> "cannot get the page number of the PDF"]
    ELSE BoxDimensionsOf(GetAllPageBoxes(readers[w.r], 1), p, boxname)

\* a normalisation that leaves a negative angle as it is
NormalizeRotationUnwrapped(tpl, rotation) ==
    IF GoRem(rotation, 360) = 0 THEN tpl
    ELSE [tpl EXCEPT !.W = IF GoRem(GoDiv(GoRem(rotation, 360), 90), 2) # 0 THEN tpl.H ELSE tpl.W,
                     !.H = IF GoRem(GoDiv(GoRem(rotation, 360), 90), 2) # 0 THEN tpl.W ELSE tpl.H,
                     !.Rotation = GoRem(rotation, 360) * (-1)]

\* "Normalize angle": the rotation and size ImportPage stores for a page angle
NormalizeRotation(tpl, rotation) ==
    IF GoRem(rotation, 360) = 0 THEN tpl
    ELSE [tpl EXCEPT !.W = IF GoRem(GoDiv(GoRem(rotation, 360), 90), 2) # 0 THEN tpl.H ELSE tpl.W,
                     !.H = IF GoRem(GoDiv(GoRem(rotation, 360), 90), 2) # 0 THEN tpl.W ELSE tpl.H,
                     !.Rotation = (IF GoRem(rotation, 360) < 0 THEN GoRem(rotation, 360) + 360
                                   ELSE GoRem(rotation, 360)) * (-1)]

\* "Set template values"
NewTemplate(rd, pageResources, content, bx) ==
    [ID |-> 0, Reader |-> rd, Resources |-> pageResources, Buffer |-> content,
     Box |-> bx, X |-> 0, Y |-> 0, W |-> Coord(bx, "w"), H |-> Coord(bx, "h"),
     Rotation |-> 0, N |-> 0]

\* ImportPage from "Set template rotation" on
ImportPageRotated(w, tpl, rotation) ==
    IF rotation.err # ErrNil
    THEN [w |-> w, val |-> -1, err |-> IF rotation.err = Panic THEN Panic ELSE "Failed to get page rotation"]
    ELSE IF IsNil(rotation.val) THEN [w |-> w, val |-> -1, err |-> Panic]
    ELSE [w |-> [w EXCEPT !.tpls = Append(@, NormalizeRotation(tpl, rotation.val.Int))],
          val |-> Len(w.tpls), err |-> ErrNil]

\* ImportPage once the box dimensions are known
ImportPageBoxed(w, rd, pageno, pageResources, content, bx) ==
    IF bx.err # ErrNil THEN [w |-> w, val |-> 0, err |-> bx.err]
    ELSE ImportPageRotated(w, NewTemplate(rd, pageResources.val, content.val, bx.val),
                           GetPageRotation(readers[rd], pageno))

\* ImportPage once the content has been read
ImportPageContent(w, rd, pageno, boxName, pageResources, content) ==
    IF content.err # ErrNil
    THEN [w |-> w, val |-> -1, err |-> IF content.err = Panic THEN Panic ELSE "Failed to get content"]
    ELSE ImportPageBoxed(w, rd, pageno, pageResources, content, GetPDFBoxDimensions(w, pageno, boxName))

\* ImportPage once the page resources have been read
ImportPageResources(w, rd, pageno, boxName, pageResources) ==
    IF pageResources.err # ErrNil
    THEN [w |-> w, val |-> -1,
          err |-> IF pageResources.err = Panic THEN Panic ELSE "Failed to get page resources"]
    ELSE ImportPageContent(w, rd, pageno, boxName, pageResources, GetContent(readers[rd], pageno))

\* PdfWriter.ImportPage: the writer after the call, the template id, the error
WriterImportPage(w, rd, pageno, boxName) ==
    IF rd = 0 THEN [w |-> [w EXCEPT !.r = rd], val |-> -1, err |-> Panic]
    ELSE ImportPageResources([w EXCEPT !.r = rd], rd, pageno, boxName,
                             GetPageResources(readers[rd], pageno))

\* sha1 of "<i>-<SourceFile>", kept as the pair it is computed from
shaOfInt(w, i) == <<i, readers[w.r].SourceFile>>

\* one piece of an output buffer: text, a decimal integer, or the id of outObjRef
Text(s) == [k |-> "text", s |-> s, n |-> 0, a |-> <<>>]
IntPiece(n) == [k |-> "int", s |-> "", n |-> n, a |-> <<>>]
RefID(n) == [k |-> "ref", s |-> "", n |-> n, a |-> <<>>]
Nums(s, a) == [k |-> "nums", s |-> s, n |-> 0, a |-> a]
Bytes(b) == [k |-> "bytes", s |-> "", n |-> 0, a |-> b]
\* the forty hexadecimal digits of the hash h
Sha(h) == [k |-> "sha", s |-> "", n |-> 0, a |-> h]

SetUseHash(w, b) == [w EXCEPT !.useHash = b]

straightOut(w, c) == [w EXCEPT !.currentObj.buffer = Append(@, c)]
out(w, c) == [w EXCEPT !.currentObj.buffer = Append(Append(@, c), Text("\n"))]

\* NextObjectID, the allocator callback, is never installed through the Importer
nextID(w, objID) == IF objID < 0 THEN w.nextOjbID + 1 ELSE objID

\* a newObj that reserves no id when it is asked for the id alone
newObjUnreserved(w, objID, onlyNewObj) ==
    IF onlyNewObj THEN w
    ELSE [w EXCEPT !.nextOjbID = IF objID < 0 THEN @ + 1 ELSE @,
                   !.currentObj = [id |-> [id |-> nextID(w, objID), hash |-> shaOfInt(w, nextID(w, objID))],
                                   buffer |-> <<>>],
                   !.writtenObjPos = Append(@, [id |-> [id |-> nextID(w, objID),
                                                        hash |-> shaOfInt(w, nextID(w, objID))],
                                                pos |-> <<>>])]

newObj(w, objID, onlyNewObj) ==
    IF onlyNewObj THEN [w EXCEPT !.nextOjbID = IF objID < 0 THEN @ + 1 ELSE @]
    ELSE [w EXCEPT !.nextOjbID = IF objID < 0 THEN @ + 1 ELSE @,
                   !.currentObj = [id |-> [id |-> nextID(w, objID), hash |-> shaOfInt(w, nextID(w, objID))],
                                   buffer |-> <<>>],
                   !.writtenObjPos = Append(@, [id |-> [id |-> nextID(w, objID),
                                                        hash |-> shaOfInt(w, nextID(w, objID))],
                                                pos |-> <<>>])]

\* endObj on the writer w0 (w0 is evaluated once)
endObj(w0) ==
    CHOOSE r \in {[w EXCEPT !.writtenObjs = Append(@, [id |-> w.currentObj.id,
                                                        buffer |-> w.currentObj.buffer])] : w \in {w0}} : TRUE

\* the position recorded is the number of pieces written so far
outObjRefOf(w, objID) ==
    [w EXCEPT !.writtenObjPos[Len(w.writtenObjPos)].pos = (Len(w.currentObj.buffer) :> shaOfInt(w, objID)) @@ @,
              !.currentObj.buffer = Append(Append(@, IF w.useHash THEN Sha(shaOfInt(w, objID))
                                                       ELSE RefID(objID)),
                                            Text(" 0 R "))]

\* outObjRef(objID) on the writer w0 (w0 is evaluated once)
outObjRef(w0, objID) == CHOOSE r \in {outObjRefOf(w, objID) : w \in {w0}} : TRUE

\* every dictionary key of the documents, in the order "fwd" visits them
DictKeys ==
    <<"/Type", "/Pages", "/Kids", "/Count", "/Parent", "/MediaBox", "/CropBox", "/BleedBox",
      "/TrimBox", "/ArtBox", "/Rotate", "/Resources", "/Contents", "/Length", "/Filter",
      "/N", "/First", "/A", "/B", "/C", "/D">>

Reverse(s) == [i \in 1..Len(s) |-> s[Len(s) + 1 - i]]

\* the keys of d among keys[i..], in that order
RECURSIVE KeysIn(_, _, _)
KeysIn(d, keys, i) ==
    IF i > Len(keys) THEN <<>>
    ELSE IF keys[i] \in DOMAIN d THEN <<keys[i]>> \o KeysIn(d, keys, i + 1)
    ELSE KeysIn(d, keys, i + 1)

\* "range value.Dictionary": Go fixes no order; ord picks one
RangeKeys(d, ord) ==
    IF ord = "fwd" THEN KeysIn(d, DictKeys, 1) ELSE Reverse(KeysIn(d, DictKeys, 1))

KeyOrders == {"fwd", "rev"}

RECURSIVE writeValue(_, _, _)
RECURSIVE writeArray(_, _, _, _)
RECURSIVE writeDictionary(_, _, _, _, _)

writeArray(w, arr, i, ord) ==
    IF i > Len(arr) THEN w ELSE writeArray(writeValue(w, arr[i], ord), arr, i + 1, ord)

writeDictionary(w, d, keys, i, ord) ==
    IF i > Len(keys) THEN w
    ELSE writeDictionary(writeValue(straightOut(w, Text(keys[i])), d[keys[i]], ord), d, keys, i + 1, ord)

\* "Keep track of object ID and new object ID": wn is the writer after newObj(-1, true)
pushObj(wn, value) ==
    [wn EXCEPT !.objStack = (value.ID :> [ObjRef(value.ID, value.Gen) EXCEPT !.NewID = wn.nextOjbID]) @@ @,
               !.doOobjStack = (value.ID :> [ObjRef(value.ID, value.Gen) EXCEPT !.NewID = wn.nextOjbID]) @@ @]

\* case PDFTypeObjRef of writeValue, after the object has been given its new id
outNewID(w0, value) ==
    CHOOSE r \in {outObjRef(w, w.doOobjStack[value.ID].NewID) : w \in {w0}} : TRUE

\* a writeValue that takes every reference for a first sighting
writeObjRefAlways(w, value) == outNewID(pushObj(newObj(w, -1, TRUE), value), value)

writeObjRef(w, value) ==
    IF Has(w.doOobjStack, value.ID) THEN outNewID(w, value)
    ELSE outNewID(pushObj(newObj(w, -1, TRUE), value), value)

\* the cases of writeValue
writeValueOf(w, value, ord) ==
    CASE value.Type = PDFTypeToken -> straightOut(w, Text(value.Token))
      [] value.Type = PDFTypeNumeric -> straightOut(w, IntPiece(value.Int))
      [] value.Type = PDFTypeReal -> straightOut(w, Nums("%F", <<value.Real>>))
      [] value.Type = PDFTypeArray ->
            out(writeArray(straightOut(w, Text("[")), value.Array, 1, ord), Text("]"))
      [] value.Type = PDFTypeDictionary ->
            straightOut(writeDictionary(straightOut(w, Text("<<")), value.Dictionary,
                                        RangeKeys(value.Dictionary, ord), 1, ord), Text(">>"))
      [] value.Type = PDFTypeObjRef -> writeObjRef(w, value)
      [] value.Type = PDFTypeString -> straightOut(w, Text(value.String))
      [] value.Type = PDFTypeStream ->
            out(out(out(writeValue(w, value.Value, ord), Text("stream")),
                    Bytes(value.Stream.data)), Text("endstream"))
      [] value.Type = PDFTypeHex -> straightOut(w, Text(value.String))
      [] value.Type = PDFTypeBoolean -> straightOut(w, Text(IF value.Bool THEN "true" ELSE "false"))
      [] value.Type = PDFTypeNull -> straightOut(w, Text("null "))
      [] OTHER -> w

\* writeValue(value) on the writer w0: the writer after the call
writeValue(w0, value, ord) == CHOOSE r \in {writeValueOf(w, value, ord) : w \in {w0}} : TRUE

\* the bound of the inner loop of putImportedObjects
MaxObjStackKey == 9999

\* the pending entries the inner loop can still visit from index i on
Pending(w, i) ==
    {j \in DOMAIN w.objStack : j >= i /\ j >= 0 /\ j < MaxObjStackKey /\ ~IsNil(w.objStack[j])}

LeastOf(S) == CHOOSE j \in S : \A o \in S : j <= o

RECURSIVE putImportedObjectsPass(_, _, _, _, _)

\* the body of the inner loop for the pending entry at key, nObj its resolved object
putImportedObject(w, rd, ord, key, nObj) ==
    IF nObj.err = Panic THEN [w |-> w, atLeastOne |-> TRUE, err |-> Panic]
    ELSE IF nObj.err # ErrNil THEN [w |-> w, atLeastOne |-> TRUE, err |-> "Unable to resolve object"]
    ELSE putImportedObjectsPass(
             [endObj(writeValue(newObj(w, w.objStack[key].NewID, FALSE),
                                IF nObj.val.Type = PDFTypeStream THEN nObj.val ELSE nObj.val.Value,
                                ord))
                EXCEPT !.objStack[key] = Nil],
             rd, ord, key + 1, TRUE)

\* one run of the inner loop, from index i on
putImportedObjectsPass(w, rd, ord, i, atLeastOne) ==
    IF Pending(w, i) = {} THEN [w |-> w, atLeastOne |-> atLeastOne, err |-> ErrNil]
    ELSE IF rd = 0 THEN [w |-> w, atLeastOne |-> TRUE, err |-> Panic]
    ELSE putImportedObject(w, rd, ord, LeastOf(Pending(w, i)),
                           ResolveObject(readers[rd], w.objStack[LeastOf(Pending(w, i))]))

RECURSIVE putImportedObjects(_, _, _)

\* the outer loop after one run p of the inner loop
putImportedObjectsAgain(p, rd, ord) ==
    IF p.err # ErrNil THEN [w |-> p.w, err |-> p.err]
    ELSE IF ~p.atLeastOne THEN [w |-> p.w, err |-> ErrNil]
    ELSE putImportedObjects(p.w, rd, ord)

putImportedObjects(w, rd, ord) ==
    putImportedObjectsAgain(putImportedObjectsPass(w, rd, ord, 0, FALSE), rd, ord)

\* the translation of the /Matrix entry
MatrixT(tpl) ==
    CASE tpl.Rotation = -90 -> <<-Coord(tpl.Box, "lly"), Coord(tpl.Box, "urx")>>
      [] tpl.Rotation = -180 -> <<Coord(tpl.Box, "urx"), Coord(tpl.Box, "ury")>>
      [] tpl.Rotation = -270 -> <<Coord(tpl.Box, "ury"), -Coord(tpl.Box, "llx")>>
      [] OTHER -> <<-Coord(tpl.Box, "llx"), -Coord(tpl.Box, "lly")>>

\* the line "/Matrix [...]", written unless the matrix is the identity
outMatrix(w, tpl, t) ==
    IF tpl.Rotation # 0 \/ t[1] # 0 \/ t[2] # 0
    THEN out(w, Nums("/Matrix [cos sin -sin cos %.5F %.5F]", <<tpl.Rotation, t[1], t[2]>>))
    ELSE w

\* the head of the Form XObject of tpl, up to "/Resources "
outTemplateHead(w, tpl) ==
    out(outMatrix(out(out(out(out(w, Text("<</Filter /FlateDecode /Type /XObject")),
                              Text("/Subtype /Form")), Text("/FormType 1")),
                      Nums("/BBox [%.2F %.2F %.2F %.2F]",
                           <<Coord(tpl.Box, "llx"), Coord(tpl.Box, "lly"),
                             Coord(tpl.Box, "urx") + tpl.X, Coord(tpl.Box, "ury") - tpl.Y>>)),
                  tpl, MatrixT(tpl)),
        Text("/Resources "))

\* the rest of the Form XObject: w is the writer after the resources were
\* written, cN the id of the Form XObject
outTemplateStreamOf(w, tpl, cN) ==
    [endObj(out(out(out(out([w EXCEPT !.nextOjbID = cN],
                            Nums("/Length %d >>", <<Len(tpl.Buffer)>>)),
                        Text("stream")), Bytes(<<"zlib", tpl.Buffer>>)), Text("endstream")))
       EXCEPT !.nextOjbID = w.nextOjbID]

outTemplateStream(w0, tpl, cN) == CHOOSE r \in {outTemplateStreamOf(w, tpl, cN) : w \in {w0}} : TRUE

\* the end of one iteration of PutFormXobjects, d the result of putImportedObjects
PutTemplateDone(d, result) ==
    [w |-> d.w, result |-> result,
     err |-> IF d.err = Panic \/ d.err = ErrNil THEN d.err ELSE "Failed to put imported objects"]

\* one iteration of PutFormXobjects, w1 the writer after newObj(-1, false)
PutTemplateObj(w1, rd, ord, i, result) ==
    IF IsNil(w1.tpls[i + 1].Resources)
    THEN [w |-> outTemplateHead([w1 EXCEPT !.tpls[i + 1].N = w1.nextOjbID], w1.tpls[i + 1]),
          result |-> result, err |-> "Template resources are empty"]
    ELSE PutTemplateDone(
             putImportedObjects(
                 outTemplateStream(
                     writeValue(outTemplateHead([w1 EXCEPT !.tpls[i + 1].N = w1.nextOjbID], w1.tpls[i + 1]),
                                w1.tpls[i + 1].Resources, ord),
                     w1.tpls[i + 1], w1.nextOjbID),
                 rd, ord),
             result)

\* a naming that ignores the offset set by SetTplIDOffset
TemplateNameFromZero(w, i) == <<"/GOFPDITPL", i>>

\* the name of template i (from zero): the index behind "/GOFPDITPL"
TemplateName(w, i) == <<"/GOFPDITPL", i + w.tplIDOffset>>

\* the Form XObject of template i (from zero) and its dependencies
PutTemplate(w, rd, ord, i, result) ==
    PutTemplateObj(newObj(w, -1, FALSE), rd, ord, i,
                   (TemplateName(w, i) :> [id |-> w.nextOjbID + 1, hash |-> shaOfInt(w, w.nextOjbID + 1)])
                   @@ result)

RECURSIVE PutFormXobjectsLoop(_, _, _, _, _)

PutFormXobjectsNext(t, rd, ord, i) ==
    IF t.err # ErrNil THEN [w |-> t.w, val |-> Nil, err |-> t.err]
    ELSE PutFormXobjectsLoop(t.w, rd, ord, i + 1, t.result)

PutFormXobjectsLoop(w, rd, ord, i, result) ==
    IF i >= Len(w.tpls) THEN [w |-> w, val |-> result, err |-> ErrNil]
    ELSE IF rd = 0 THEN [w |-> w, val |-> Nil, err |-> Panic]
    ELSE PutFormXobjectsNext(PutTemplate(w, rd, ord, i, result), rd, ord, i)

\* PdfWriter.PutFormXobjects(reader)
WriterPutFormXobjects(w, rd, ord) ==
    PutFormXobjectsLoop([w EXCEPT !.r = rd], rd, ord, 0, <<>>)

\* float64 values as fractions n/d in lowest terms with d > 0; d = 0 is what
\* a division by zero gives: +Inf (n = 1), -Inf (n = -1) or NaN (n = 0)
RECURSIVE GCD(_, _)
GCD(a, b) == IF b = 0 THEN a ELSE GCD(b, a % b)
Sgn(n) == IF n > 0 THEN 1 ELSE IF n < 0 THEN -1 ELSE 0
Float(n, d) ==
    IF d = 0 THEN [n |-> Sgn(n), d |-> 0]
    ELSE [n |-> Sgn(n) * Sgn(d) * (Abs(n) \div GCD(Abs(n), Abs(d))),
          d |-> Abs(d) \div GCD(Abs(n), Abs(d))]
FloatOf(i) == [n |-> i, d |-> 1]
FMul(a, b) == Float(a.n * b.n, a.d * b.d)
FInv(a) == IF a.n < 0 THEN [n |-> -a.d, d |-> -a.n] ELSE [n |-> a.d, d |-> a.n]
FDiv(a, b) == FMul(a, FInv(b))
FAdd(a, b) ==
    IF a.d = 0 /\ b.d = 0 THEN (IF a.n = b.n THEN a ELSE [n |-> 0, d |-> 0])
    ELSE Float(a.n * b.d + b.n * a.d, a.d * b.d)
FSub(a, b) == FAdd(a, [n |-> -b.n, d |-> b.d])
FIsZero(a) == a.n = 0 /\ a.d # 0

\* getTemplateSize from "if _h == 0" on, w and h the size of the template
getTemplateSizeH(w, h, _w, _h) ==
    [w |-> _w, h |-> IF FIsZero(_h) THEN FDiv(FMul(_w, h), w) ELSE _h]

\* getTemplateSize from "if _w == 0" on
getTemplateSizeW(w, h, _w, _h) ==
    getTemplateSizeH(w, h, IF FIsZero(_w) THEN FDiv(FMul(_h, w), h) ELSE _w, _h)

\* getTemplateSize(tplid, _w, _h): the size with the zero sides filled in
getTemplateSize(pw0, tplid, _w, _h) ==
    IF FIsZero(_w) /\ FIsZero(_h)
    THEN getTemplateSizeW(FloatOf(pw0.tpls[tplid + 1].W), FloatOf(pw0.tpls[tplid + 1].H),
                          FloatOf(pw0.tpls[tplid + 1].W), FloatOf(pw0.tpls[tplid + 1].H))
    ELSE getTemplateSizeW(FloatOf(pw0.tpls[tplid + 1].W), FloatOf(pw0.tpls[tplid + 1].H), _w, _h)

\* UseTemplate once the size is known; the unit factor k of the writer is 1
UseTemplateData(pw0, tplid, tpl, _x, _y, wh) ==
    [name |-> <<"/GOFPDITPL", tplid + pw0.tplIDOffset>>,
     scaleX |-> FDiv(wh.w, FloatOf(tpl.W)),
     scaleY |-> FDiv(wh.h, FloatOf(tpl.H)),
     tx |-> FAdd(_x, FloatOf(tpl.X)),
     ty |-> FSub(FSub(FloatOf(0), FAdd(_y, FloatOf(tpl.Y))), wh.h)]

\* PdfWriter.UseTemplate(tplid, _x, _y, _w, _h): the size is asked for
\* template 0
WriterUseTemplate(pw0, tplid, _x, _y, _w, _h) ==
    IF tplid < 0 \/ tplid >= Len(pw0.tpls) THEN [val |-> Nil, err |-> Panic]
    ELSE [val |-> UseTemplateData(pw0, tplid, pw0.tpls[tplid + 1], _x, _y,
                                  getTemplateSize(pw0, 0, _w, _h)),
          err |-> ErrNil]

(***************************************************************************)
(* Importer                                                           *)
(***************************************************************************)
NewImporter == [reader |-> 0, tplMap |-> <<>>, tplN |-> 0, importedPages |-> <<>>]

\* a panic ends the program, and calls do not overlap
Running == ret.err # Panic /\ IsNil(call)

\* bound of the model: PutFormXobjects is not called again once this many
\* objects have been started
MaxWritten == 2

\* a PdfReader never changes once read, so the reader made from stream f is
\* kept under f, and making it again gives the same reader
SetSourceStream(f) ==
    /\ Running
    /\ \E r \in {NewPdfReaderFromStream(f)} :
       IF r.err = ErrNil
       THEN /\ readers' = [readers EXCEPT ![f] = r.pr]
            /\ imp' = [imp EXCEPT !.reader = f]
            /\ pw' = [pw EXCEPT !.tplIDOffset = imp.tplN]
            /\ ret' = Return("SetSourceStream", <<f>>, f, ErrNil)
       ELSE /\ readers' = readers
            /\ imp' = [imp EXCEPT !.reader = 0]
            /\ pw' = pw
            /\ ret' = Return("SetSourceStream", <<f>>, 0, r.err)
    /\ UNCHANGED <<files, call>>

\* an ImportPage that does not look into importedPages
ImportPageAgain(pageno, box) ==
    /\ Running
    /\ \E res \in {WriterImportPage(pw, imp.reader, pageno, box)} :
       /\ pw' = res.w
       /\ IF res.err # ErrNil
          THEN /\ imp' = imp
               /\ ret' = Return("ImportPage", <<pageno, box>>, 0, res.err)
          ELSE /\ imp' = [imp EXCEPT !.tplMap = (imp.tplN :> [TemplateID |-> res.val]) @@ @,
                                     !.tplN = @ + 1,
                                     !.importedPages = (pageno :> imp.tplN) @@ @]
               /\ ret' = Return("ImportPage", <<pageno, box>>, imp.tplN, ErrNil)
    /\ UNCHANGED <<files, readers, call>>

ImportPage(pageno, box) ==
    /\ Running
    /\ IF Has(imp.importedPages, pageno)
       THEN /\ ret' = Return("ImportPage", <<pageno, box>>, imp.importedPages[pageno], ErrNil)
            /\ UNCHANGED <<imp, pw>>
       ELSE \E res \in {WriterImportPage(pw, imp.reader, pageno, box)} :
            /\ pw' = res.w
            /\ IF res.err # ErrNil
               THEN /\ imp' = imp
                    /\ ret' = Return("ImportPage", <<pageno, box>>, 0, res.err)
               ELSE /\ imp' = [imp EXCEPT !.tplMap = (imp.tplN :> [TemplateID |-> res.val]) @@ @,
                                          !.tplN = @ + 1,
                                          !.importedPages = (pageno :> imp.tplN) @@ @]
                    /\ ret' = Return("ImportPage", <<pageno, box>>, imp.tplN, ErrNil)
    /\ UNCHANGED <<files, readers, call>>

SetNextObjectID(objID) ==
    /\ Running
    /\ pw' = [pw EXCEPT !.nextOjbID = objID - 1]
    /\ ret' = Return("SetNextObjectID", <<objID>>, 0, ErrNil)
    /\ UNCHANGED <<files, readers, imp, call>>

\* Importer.PutFormXobjects: the names map to the integer ids
PutFormXobjects(ord) ==
    /\ Running
    /\ Len(pw.writtenObjPos) < MaxWritten
    /\ \E res \in {WriterPutFormXobjects(pw, imp.reader, ord)} :
       /\ pw' = res.w
       /\ ret' = IF res.err # ErrNil
                 THEN Return("PutFormXobjects", <<pw.nextOjbID + 1>>, <<>>, res.err)
                 ELSE Return("PutFormXobjects", <<pw.nextOjbID + 1>>,
                             [name \in DOMAIN res.val |-> res.val[name].id], ErrNil)
    /\ UNCHANGED <<files, readers, imp, call>>

\* Importer.PutFormXobjectsUnordered: the writer is put into hash mode, and
\* the names map to the hashes of the Form XObjects
PutFormXobjectsUnordered(ord) ==
    /\ Running
    /\ Len(pw.writtenObjPos) < MaxWritten
    /\ \E res \in {WriterPutFormXobjects(SetUseHash(pw, TRUE), imp.reader, ord)} :
       /\ pw' = res.w
       /\ ret' = IF res.err # ErrNil
                 THEN Return("PutFormXobjectsUnordered", <<pw.nextOjbID + 1>>, <<>>, res.err)
                 ELSE Return("PutFormXobjectsUnordered", <<pw.nextOjbID + 1>>,
                             [name \in DOMAIN res.val |-> res.val[name].hash], ErrNil)
    /\ UNCHANGED <<files, readers, imp, call>>

\* Importer.GetImportedObjectsUnordered at the key hash: the buffers of the
\* entries of writtenObjs with that hash (Go's range picks one of them)
GetImportedObjectsUnordered(hash) ==
    {pw.writtenObjs[j].buffer : j \in {i \in 1..Len(pw.writtenObjs) : pw.writtenObjs[i].id.hash = hash}}

\* Importer.GetImportedObjHashPos as triples: the hash of an object, a
\* position in it, the hash written there
GetImportedObjHashPos ==
    UNION {{<<pw.writtenObjPos[i].id.hash, pos, pw.writtenObjPos[i].pos[pos]>> :
               pos \in DOMAIN pw.writtenObjPos[i].pos} : i \in 1..Len(pw.writtenObjPos)}

\* PutFormXobjects taken step by step: the call is entered, every template
\* is written, and after each template the pending entries of objStack are
\* drained one object at a time.  MaxDrained bounds the objects started.
MaxDrained == 12

InCall(at) == ~IsNil(call) /\ call.at = at

\* the call is entered: pw.r = reader, result is empty, the loop starts at
\* template 0
PutFormXobjectsEnter(ord) ==
    /\ Running
    /\ Len(pw.writtenObjPos) < MaxWritten
    /\ call' = [op |-> "PutFormXobjects", arg |-> <<pw.nextOjbID + 1>>, ord |-> ord, at |-> "tpls",
                i |-> 0, result |-> <<>>, k |-> 0, atLeastOne |-> FALSE]
    /\ pw' = [pw EXCEPT !.r = imp.reader]
    /\ UNCHANGED <<files, readers, imp, ret>>

\* the call returns to the caller
PutFormXobjectsReturn(w, val, err) ==
    /\ pw' = w
    /\ ret' = Return("PutFormXobjects", call.arg, val, err)
    /\ call' = Nil

\* one iteration of the loop over pw.tpls, up to the call of
\* putImportedObjects; the loop is left when every template is written
PutFormXobjectsTemplate ==
    /\ InCall("tpls")
    /\ Len(pw.writtenObjPos) < MaxDrained
    /\ IF call.i >= Len(pw.tpls)
       THEN PutFormXobjectsReturn(pw, [name \in DOMAIN call.result |-> call.result[name].id], ErrNil)
       ELSE IF imp.reader = 0 THEN PutFormXobjectsReturn(pw, <<>>, Panic)
       ELSE \E w1 \in {newObj(pw, -1, FALSE)} :
            IF IsNil(w1.tpls[call.i + 1].Resources)
            THEN PutFormXobjectsReturn(
                     outTemplateHead([w1 EXCEPT !.tpls[call.i + 1].N = w1.nextOjbID], w1.tpls[call.i + 1]),
                     <<>>, "Template resources are empty")
            ELSE /\ \E w2 \in {outTemplateStream(
                                 writeValue(outTemplateHead([w1 EXCEPT !.tpls[call.i + 1].N = w1.nextOjbID],
                                                            w1.tpls[call.i + 1]),
                                            w1.tpls[call.i + 1].Resources, call.ord),
                                 w1.tpls[call.i + 1], w1.nextOjbID)} : pw' = w2
                 /\ call' = [call EXCEPT !.at = "objs", !.k = 0, !.atLeastOne = FALSE,
                                         !.result = (TemplateName(pw, call.i) :>
                                                        [id |-> pw.nextOjbID + 1,
                                                         hash |-> shaOfInt(pw, pw.nextOjbID + 1)]) @@ @]
                 /\ ret' = ret
    /\ UNCHANGED <<files, readers, imp>>

\* putImportedObjects: one iteration of the inner loop that finds a pending
\* entry, or the end of the inner loop when no entry is left from k on
PutImportedObjectsStep ==
    /\ InCall("objs")
    /\ Len(pw.writtenObjPos) < MaxDrained
    /\ IF Pending(pw, call.k) = {}
       THEN /\ call' = IF call.atLeastOne THEN [call EXCEPT !.k = 0, !.atLeastOne = FALSE]
                       ELSE [call EXCEPT !.at = "tpls", !.i = @ + 1]
            /\ UNCHANGED <<pw, ret>>
       ELSE \E key \in {LeastOf(Pending(pw, call.k))} :
            \E nObj \in {ResolveObject(readers[imp.reader], pw.objStack[key])} :
            IF nObj.err = Panic THEN PutFormXobjectsReturn(pw, <<>>, Panic)
            ELSE IF nObj.err # ErrNil
            THEN PutFormXobjectsReturn(pw, <<>>, "Failed to put imported objects")
            ELSE /\ \E w2 \in {[endObj(writeValue(newObj(pw, pw.objStack[key].NewID, FALSE),
                                                   IF nObj.val.Type = PDFTypeStream THEN nObj.val
                                                   ELSE nObj.val.Value,
                                                   call.ord))
                                   EXCEPT !.objStack[key] = Nil]} : pw' = w2
                 /\ call' = [call EXCEPT !.k = key + 1, !.atLeastOne = TRUE]
                 /\ ret' = ret
    /\ UNCHANGED <<files, readers, imp>>

ClearImportedObjects ==
    /\ Running
    /\ pw.writtenObjs # <<>>
    /\ pw' = [pw EXCEPT !.writtenObjs = <<>>]
    /\ ret' = Return("ClearImportedObjects", <<>>, 0, ErrNil)
    /\ UNCHANGED <<files, readers, imp, call>>

\* Importer.GetImportedObjects: the entries of writtenObjs by integer id
GetImportedObjects == {pw.writtenObjs[i].id.id : i \in 1..Len(pw.writtenObjs)}

\* Importer.GetNumPages
ImporterGetNumPages ==
    /\ Running
    /\ ret' = IF imp.reader = 0 THEN Return("GetNumPages", <<>>, 0, Panic)
              ELSE Return("GetNumPages", <<>>, GetNumPages(readers[imp.reader]).val,
                          GetNumPages(readers[imp.reader]).err)
    /\ UNCHANGED <<files, readers, imp, pw, call>>

\* Importer.GetPageSizes: GetPageBoxes of every page, at scale 1
GetPageSizes ==
    /\ Running
    /\ \E r \in {IF imp.reader = 0 THEN [val |-> Nil, err |-> Panic]
                  ELSE GetAllPageBoxes(readers[imp.reader], 1)} :
       ret' = Return("GetPageSizes", <<>>, r.val, r.err)
    /\ UNCHANGED <<files, readers, imp, pw, call>>

\* PdfReader.ResolveObject called on the reader of the source document
Resolve(objSpec) ==
    /\ Running
    /\ imp.reader # 0
    /\ \E r \in {ResolveObject(readers[imp.reader], objSpec)} :
       ret' = Return("ResolveObject", <<objSpec>>, r.val, r.err)
    /\ readers' = [readers EXCEPT ![imp.reader].pos =
                       ResolvePos(readers[imp.reader], objSpec, readers[imp.reader].pos)]
    /\ UNCHANGED <<files, imp, pw, call>>

\* PdfReader.GetPageResources called on the reader in use
PageResources(pageno) ==
    /\ Running
    /\ imp.reader # 0
    /\ \E r \in {GetPageResources(readers[imp.reader], pageno)} :
       ret' = Return("GetPageResources", <<pageno>>, r.val, r.err)
    /\ UNCHANGED <<files, readers, imp, pw, call>>

\* Importer.UseTemplate: tplMap[tplid] is the nil pointer for an id that
\* ImportPage never returned, and the call reads its Writer field
UseTemplate(tplid, _x, _y, _w, _h) ==
    /\ Running
    /\ \E r \in {IF ~Has(imp.tplMap, tplid) THEN [val |-> Nil, err |-> Panic]
                  ELSE WriterUseTemplate(pw, imp.tplMap[tplid].TemplateID, FloatOf(_x),
                                         FloatOf(_y), FloatOf(_w), FloatOf(_h))} :
       ret' = Return("UseTemplate", <<tplid, _x, _y, _w, _h>>, r.val, r.err)
    /\ UNCHANGED <<files, readers, imp, pw, call>>

(***************************************************************************)
(* Source documents                                                        *)
(***************************************************************************)
\* a set of integers as the ascending sequence of its elements
RECURSIVE Ascending(_)
Ascending(S) ==
    IF S = {} THEN <<>>
    ELSE LET m == LeastOf(S) IN <<m>> \o Ascending(S \ {m})

\* revision rev of object id starts at this byte offset
OffsetOf(id, rev) == 10 * id + rev

Stream(chunks, z) == [data |-> chunks, z |-> z]

Object(id, value) == [ID |-> id, Gen |-> 0, Value |-> value, Stream |-> Nil]
StreamObject(id, value, stream) == [ID |-> id, Gen |-> 0, Value |-> value, Stream |-> stream]

\* a classic table listing objs (id -> object definition) of revision rev,
\* one subsection per id, after the subsection of the free entry 0
Subsections(ids, rev) ==
    <<[start |-> 0, rows |-> <<[pos |-> 0, gen |-> 65535, status |-> "f"]>>]>> \o
    [i \in 1..Cardinality(ids) |->
        [start |-> Ascending(ids)[i],
         rows |-> <<[pos |-> OffsetOf(Ascending(ids)[i], rev), gen |-> 0, status |-> "n"]>>]]

Table(ids, rev, trailer) == [kind |-> "table", subs |-> Subsections(ids, rev), dict |-> Dictionary(trailer)]

BodyOf(objs, rev) == [o \in {OffsetOf(id, rev) : id \in DOMAIN objs} |-> objs[o \div 10]]

\* a one-revision file: the objects, one classic table, /Root 1 0 R
ClassicFile(objs) ==
    [startxref |-> 1,
     xrefs |-> 1 :> Table(DOMAIN objs, 0, "/Root" :> ObjRef(1, 0)),
     body |-> BodyOf(objs, 0)]

Box(llx, lly, urx, ury) == Array(<<Numeric(llx), Numeric(lly), Numeric(urx), Numeric(ury)>>)
Refs(ids) == Array([i \in 1..Len(ids) |-> ObjRef(ids[i], 0)])

Catalog == Dictionary(("/Type" :> Token("/Catalog")) @@ ("/Pages" :> ObjRef(2, 0)))
Pages(kids, count, more) ==
    Dictionary(("/Type" :> Token("/Pages")) @@ ("/Kids" :> Refs(kids)) @@ ("/Count" :> count) @@ more)
Page(parent, more) ==
    Dictionary(("/Type" :> Token("/Page")) @@ ("/Parent" :> ObjRef(parent, 0)) @@ more)
Content(id) == StreamObject(id, Dictionary("/Length" :> Numeric(1)), Stream(<<"q Q">>, 0))

\* the resource objects of the emission documents, the dictionary key that
\* refers to each, and a dictionary holding a reference to each member of ids
DepIds == {6, 9998, 9999}
DepKey(id) == CASE id = 6 -> "/A" [] id = 9998 -> "/B" [] id = 9999 -> "/C" [] OTHER -> "/D"
DepDict(ids) == Dictionary([key \in {DepKey(id) : id \in ids} |->
                              ObjRef(CHOOSE id \in ids : DepKey(id) = key, 0)])

\* two pages: page 1 refers to the resources s1, page 2 to object 6, and
\* resource object id refers to g[id] (0: to nothing)
EmitFile(s1, g) ==
    ClassicFile(
        (1 :> Object(1, Catalog))
        @@ (2 :> Object(2, Pages(<<3, 4>>, Numeric(2), "/MediaBox" :> Box(0, 0, 100, 200))))
        @@ (3 :> Object(3, Page(2, ("/Resources" :> DepDict(s1)) @@ ("/Contents" :> ObjRef(5, 0)))))
        @@ (4 :> Object(4, Page(2, ("/Resources" :> DepDict({6})) @@ ("/Contents" :> ObjRef(5, 0)))))
        @@ (5 :> Content(5))
        @@ [id \in DepIds |-> Object(id, DepDict({g[id]} \ {0}))])

\* the graphs: 6 refers to itself, to 9998 or to none, 9998 to 9999 or to none,
\* 9999 to 6 or to none (chains, shared objects, cycles, a self-reference)
DepGraphs ==
    {g \in [DepIds -> DepIds \cup {0}] :
        g[6] \in {0, 6, 9998} /\ g[9998] \in {0, 9999} /\ g[9999] \in {0, 6}}

\* page 1 refers to no resource object, to 6, to 9999, or to all of them
EmitFiles ==
    {EmitFile(s1, g) : s1 \in {{}, {6}, {9999}, DepIds}, g \in DepGraphs}

\* documents whose resource objects 6 and 7 refer to any of 6 and 7: none,
\* one another, themselves, both
CycleFile(s1, g) ==
    ClassicFile(
        (1 :> Object(1, Catalog))
        @@ (2 :> Object(2, Pages(<<3, 4>>, Numeric(2), "/MediaBox" :> Box(0, 0, 100, 200))))
        @@ (3 :> Object(3, Page(2, ("/Resources" :> DepDict(s1)) @@ ("/Contents" :> ObjRef(5, 0)))))
        @@ (4 :> Object(4, Page(2, ("/Resources" :> DepDict({6})) @@ ("/Contents" :> ObjRef(5, 0)))))
        @@ (5 :> Content(5))
        @@ [id \in {6, 7} |-> Object(id, DepDict(g[id]))])

CycleFiles == {CycleFile(s1, g) : s1 \in {{6}, {6, 7}}, g \in [{6, 7} -> SUBSET {6, 7}]}

\* a page tree of depth two: catalog 1, root /Pages 2 with the given /Count,
\* inner /Pages 3 with the given kids, the pages 4 and 5, their content 6;
\* root, mid, page1 and page2 are further entries of the four nodes
TreeFile(kids, count, root, mid, page1, page2, extra) ==
    ClassicFile(
        (1 :> Object(1, Catalog))
        @@ (2 :> Object(2, Pages(<<3>>, count, root)))
        @@ (3 :> Object(3, Pages(kids, Numeric(Len(kids)), ("/Parent" :> ObjRef(2, 0)) @@ mid)))
        @@ (4 :> Object(4, Page(3, ("/Resources" :> Dictionary(<<>>))
                                   @@ ("/Contents" :> ObjRef(6, 0)) @@ page1)))
        @@ (5 :> Object(5, Page(3, ("/Resources" :> Dictionary(<<>>))
                                   @@ ("/Contents" :> ObjRef(6, 0)) @@ page2)))
        @@ (6 :> Content(6))
        @@ extra)

\* the box a node of a level carries under a name: every pair has its own box,
\* and the bleed box reaches beyond the media box
NameInset(name) ==
    CASE name = "/MediaBox" -> 0 [] name = "/CropBox" -> 10 [] name = "/BleedBox" -> -5 [] OTHER -> 20
LevelGrow(level) == CASE level = "root" -> 0 [] level = "mid" -> 10 [] OTHER -> 20
BoxAt(name, level) ==
    Box(NameInset(name), NameInset(name),
        100 + LevelGrow(level) - NameInset(name), 200 + LevelGrow(level) - NameInset(name))

\* the box entries of the node of a level when place[name] is the set of
\* levels that carry the box name
BoxesAt(place, level) == [name \in {n \in DOMAIN place : level \in place[n]} |-> BoxAt(name, level)]

Placements ==
    {("/MediaBox" :> m) @@ ("/CropBox" :> c) @@ ("/BleedBox" :> b) :
        m \in {{}, {"root"}, {"mid"}, {"root", "mid", "page"}},
        c \in {{}, {"mid"}, {"page"}},
        b \in {{}, {"root"}, {"page"}}}

\* page 1 may carry boxes of its own, page 2 inherits all of its boxes
BoxFile(place) ==
    TreeFile(<<4, 5>>, Numeric(2), BoxesAt(place, "root"), BoxesAt(place, "mid"),
             BoxesAt(place, "page"), <<>>, <<>>)

BoxFiles == {BoxFile(place) : place \in Placements}

\* the /Rotate values of the documents
Rotations == {0, 90, 180, 270, -90, 450, 720}

\* the entry /Rotate r at the node of the level, nothing at the other nodes
RotateAt(r, level, node) == IF level = node THEN "/Rotate" :> Numeric(r) ELSE <<>>

RotateFile(r, level) ==
    TreeFile(<<4, 5>>, Numeric(2),
             ("/MediaBox" :> BoxAt("/MediaBox", "root")) @@ RotateAt(r, level, "root"),
             RotateAt(r, level, "mid"), RotateAt(r, level, "page"), <<>>, <<>>)

RotateFiles == {RotateFile(r, level) : r \in Rotations, level \in {"root", "mid", "page"}}

\* /Count of the root written as a number, or as a reference to object 7
\* that holds the number
CountFile(kids, indirect) ==
    TreeFile(kids, IF indirect THEN ObjRef(7, 0) ELSE Numeric(Len(kids)),
             "/MediaBox" :> BoxAt("/MediaBox", "root"), <<>>, <<>>, <<>>,
             IF indirect THEN 7 :> Object(7, Numeric(Len(kids))) ELSE <<>>)

CountFiles == {CountFile(kids, indirect) : kids \in {<<4>>, <<4, 5>>}, indirect \in BOOLEAN}

PageFiles == BoxFiles \cup RotateFiles \cup CountFiles

\* documents whose two pages have a /MediaBox of their own, of the same or of
\* a different size and shape; a size <<0, 0>> is a page without any box
PageSizes == {<<100, 200>>, <<200, 400>>, <<300, 400>>, <<0, 0>>}
SizeBox(s) == IF s = <<0, 0>> THEN <<>> ELSE "/MediaBox" :> Box(0, 0, s[1], s[2])
SizeFile(s1, s2) == TreeFile(<<4, 5>>, Numeric(2), <<>>, <<>>, SizeBox(s1), SizeBox(s2), <<>>)
SizeFiles == {SizeFile(s1, s2) : s1, s2 \in PageSizes}

\* the /Resources the node of a level carries when the level is in place
ResourcesAt(place, level) ==
    IF level \in place THEN "/Resources" :> Dictionary("/A" :> Token(level)) ELSE <<>>

\* a page tree of depth two whose nodes carry /Resources where place says:
\* root /Pages 2, inner /Pages 3, the pages 4 and 5
ResFile(place) ==
    ClassicFile(
        (1 :> Object(1, Catalog))
        @@ (2 :> Object(2, Pages(<<3>>, Numeric(2),
                                 ("/MediaBox" :> Box(0, 0, 100, 200)) @@ ResourcesAt(place, "/root"))))
        @@ (3 :> Object(3, Pages(<<4, 5>>, Numeric(2),
                                 ("/Parent" :> ObjRef(2, 0)) @@ ResourcesAt(place, "/mid"))))
        @@ (4 :> Object(4, Page(3, ("/Contents" :> ObjRef(6, 0)) @@ ResourcesAt(place, "/page1"))))
        @@ (5 :> Object(5, Page(3, ("/Contents" :> ObjRef(6, 0)) @@ ResourcesAt(place, "/page2"))))
        @@ (6 :> Content(6)))

ResFiles == {ResFile(place) : place \in SUBSET {"/root", "/mid", "/page1", "/page2"}}

\* documents of several revisions: revision 0 writes the catalog 1, the
\* /Pages 2, the page 3 and its content 4, every later revision writes the
\* page 3 again with a /MediaBox of its own.  The kind of a revision says how
\* its cross-reference section lists the page: "table" in a classic table,
\* "stream" in a cross-reference stream as an object at an offset, "objstm"
\* in a cross-reference stream as a member of the object stream StmId(rev)
RevKinds == {"table", "stream", "objstm"}
MaxRevisions == 3

XrefPosOf(rev) == 1000 + rev
StmId(rev) == 5 + rev

RevPage(rev) ==
    Page(2, ("/Resources" :> Dictionary(<<>>)) @@ ("/Contents" :> ObjRef(4, 0))
            @@ ("/MediaBox" :> Box(0, 0, 100 + rev, 200)))

\* the objects revision rev writes on their own, by id
RevObjects(rev, kind) ==
    (IF kind = "objstm"
     THEN StmId(rev) :> StreamObject(StmId(rev),
                                     Dictionary(("/Type" :> Token("/ObjStm")) @@ ("/N" :> Numeric(1))
                                                @@ ("/First" :> Numeric(4))),
                                     [pairs |-> <<[id |-> 3, pos |-> 0]>>, objs |-> 0 :> RevPage(rev)])
     ELSE 3 :> Object(3, RevPage(rev)))
    @@ (IF rev = 0
        THEN (1 :> Object(1, Catalog)) @@ (2 :> Object(2, Pages(<<3>>, Numeric(1), <<>>)))
             @@ (4 :> Content(4))
        ELSE <<>>)

\* trailer entries of revision rev: every later revision names the one before
RevTrailer(rev) ==
    ("/Root" :> ObjRef(1, 0)) @@ (IF rev > 0 THEN "/Prev" :> Numeric(XrefPosOf(rev - 1)) ELSE <<>>)

\* the decoded row of object i in the cross-reference stream of revision rev
RevRow(rev, kind, i) ==
    IF i = 3 /\ kind = "objstm" THEN [flag |-> 2, f2 |-> StmId(rev), f3 |-> 0]
    ELSE IF i \in DOMAIN RevObjects(rev, kind) THEN [flag |-> 1, f2 |-> OffsetOf(i, rev), f3 |-> 0]
    ELSE [flag |-> 0, f2 |-> 0, f3 |-> 0]

\* the first object a revision lists, and how many rows follow
RevFirst(rev) == IF rev = 0 THEN 0 ELSE 3
RevRows(rev, kind) == (IF kind = "objstm" THEN StmId(rev) ELSE 4) - RevFirst(rev) + 1

RevSection(rev, kind) ==
    IF kind = "table" THEN Table(DOMAIN RevObjects(rev, kind), rev, RevTrailer(rev))
    ELSE [kind |-> "stream",
          dict |-> Dictionary(("/Type" :> Token("/XRef"))
                              @@ ("/Index" :> Array(<<Numeric(RevFirst(rev)), Numeric(RevRows(rev, kind))>>))
                              @@ ("/W" :> Array(<<Numeric(1), Numeric(2), Numeric(1)>>))
                              @@ RevTrailer(rev)),
          rows |-> [j \in 1..RevRows(rev, kind) |-> RevRow(rev, kind, RevFirst(rev) + j - 1)]]

\* kinds[rev + 1] is the kind of revision rev; startxref names the last one
RevFile(kinds) ==
    [startxref |-> XrefPosOf(Len(kinds) - 1),
     xrefs |-> [pos \in {XrefPosOf(rev) : rev \in 0..(Len(kinds) - 1)} |->
                   RevSection(pos - XrefPosOf(0), kinds[pos - XrefPosOf(0) + 1])],
     body |-> [o \in UNION {DOMAIN BodyOf(RevObjects(rev, kinds[rev + 1]), rev) : rev \in 0..(Len(kinds) - 1)} |->
                   RevObjects(o % 10, kinds[(o % 10) + 1])[o \div 10]]]

RevFiles == {RevFile(kinds) : kinds \in UNION {[1..n -> RevKinds] : n \in 1..MaxRevisions}}

\* documents whose cross-reference stream went through a PNG predictor
\* before it was deflated: /W [1 2 1], /DecodeParms << /Columns 4 /Predictor 12 >>,
\* every row a tag byte and the four predicted bytes of the entry.
\* The predictor of the PNG definition for left a, above b, upper left c:
PngPaeth(a, b, c) ==
    LET pp == a + b - c
        pa == IF pp - a < 0 THEN a - pp ELSE pp - a
        pb == IF pp - b < 0 THEN b - pp ELSE pp - b
        pc == IF pp - c < 0 THEN c - pp ELSE pp - c
    IN IF pa <= pb /\ pa <= pc THEN a ELSE IF pb <= pc THEN b ELSE c

\* the tag byte of a PNG filter type
FilterTag(filter) == IF filter = "paeth" THEN 4 ELSE 2

\* byte j of a row after the filter, raw the row and prior the row above it
EncodeByte(filter, raw, prior, j) ==
    IF filter = "paeth"
    THEN (raw[j] + 256 - PngPaeth(IF j = 1 THEN 0 ELSE raw[j - 1], prior[j],
                                  IF j = 1 THEN 0 ELSE prior[j - 1])) % 256
    ELSE (raw[j] + 256 - prior[j]) % 256

EncodeRow(filter, raw, prior) ==
    <<FilterTag(filter)>> \o [j \in 1..Len(raw) |-> EncodeByte(filter, raw, prior, j)]

EncodeRows(filter, rows) ==
    [k \in 1..Len(rows) |->
        EncodeRow(filter, rows[k], IF k = 1 THEN [j \in 1..Len(rows[k]) |-> 0] ELSE rows[k - 1])]

\* the four bytes of an entry for /W [1 2 1]
RowBytes(row) == <<row.flag, row.f2 \div 256, row.f2 % 256, row.f3>>

\* the entries of objects 0..4 when object id is written at offs[id]
PredictedRaw(offs) ==
    <<[flag |-> 0, f2 |-> 0, f3 |-> 255]>> \o [id \in 1..4 |-> [flag |-> 1, f2 |-> offs[id], f3 |-> 0]]

PredictedFile(filter, offs) ==
    [startxref |-> XrefPosOf(0),
     xrefs |-> XrefPosOf(0) :>
         [kind |-> "stream",
          dict |-> Dictionary(("/Type" :> Token("/XRef"))
                              @@ ("/W" :> Array(<<Numeric(1), Numeric(2), Numeric(1)>>))
                              @@ ("/DecodeParms" :> Dictionary(("/Columns" :> Numeric(4))
                                                               @@ ("/Predictor" :> Numeric(12))))
                              @@ RevTrailer(0)),
          raw |-> PredictedRaw(offs),
          data |-> EncodeRows(filter, [k \in 1..5 |-> RowBytes(PredictedRaw(offs)[k])])],
     body |-> [o \in {offs[id] : id \in 1..4} |->
                  RevObjects(0, "stream")[CHOOSE id \in 1..4 : offs[id] = o]]]

\* the offsets of the four objects: below and above 256
OffsetChoices ==
    {<<o1, o2, o3, o4>> : o1 \in {10, 266}, o2 \in {20, 532}, o3 \in {30, 255}, o4 \in {40, 1024}}

PredictedFiles == {PredictedFile(filter, offs) : filter \in {"paeth", "up"}, offs \in OffsetChoices}

(***************************************************************************)
(* Specifications                                                          *)
(***************************************************************************)
InitWith(fs) ==
    /\ files \in {<<f>> : f \in fs}
    /\ readers = [f \in 1..Len(files) |-> Nil]
    /\ imp = NewImporter
    /\ pw = NewPdfWriter
    /\ ret = Return("NewImporter", <<>>, 0, ErrNil)
    /\ call = Nil

SeedIDs == {20}

\* emission: import the two pages, seed the counter, emit, clear
Init == InitWith(EmitFiles)

Next ==
    \/ \E f \in 1..Len(files) : SetSourceStream(f)
    \/ \E pageno \in 1..2 : ImportPage(pageno, "/MediaBox")
    \/ \E objID \in SeedIDs : SetNextObjectID(objID)
    \/ \E ord \in KeyOrders : PutFormXobjects(ord)
    \/ ClearImportedObjects

Spec == Init /\ [][Next]_vars

\* resources: read a document, ask for the resources of its pages, import them
InitRes == InitWith(ResFiles)

NextRes ==
    \/ \E f \in 1..Len(files) : SetSourceStream(f)
    \/ \E pageno \in 1..3 : PageResources(pageno)
    \/ \E pageno \in 1..2 : ImportPage(pageno, "/MediaBox")

SpecRes == InitRes /\ [][NextRes]_vars

\* emission without reseeding: import the two pages, emit, clear, emit again
InitIds == InitWith(EmitFiles)

NextIds ==
    \/ \E f \in 1..Len(files) : SetSourceStream(f)
    \/ \E pageno \in 1..2 : ImportPage(pageno, "/MediaBox")
    \/ \E ord \in KeyOrders : PutFormXobjects(ord)
    \/ ClearImportedObjects

SpecIds == InitIds /\ [][NextIds]_vars

\* two sources: the Importer is given either of two documents, in any order
SourceChoices ==
    {EmitFile(s1, [id \in DepIds |-> 0]) : s1 \in {{}, {6}, DepIds}}
    \cup {EmitFile({6}, [id \in DepIds |-> IF id = 6 THEN 9998 ELSE 0])}

InitSources ==
    /\ files \in {<<f, g>> : f, g \in SourceChoices}
    /\ readers = [f \in 1..Len(files) |-> Nil]
    /\ imp = NewImporter
    /\ pw = NewPdfWriter
    /\ ret = Return("NewImporter", <<>>, 0, ErrNil)
    /\ call = Nil

NextSources ==
    \/ \E f \in 1..Len(files) : SetSourceStream(f)
    \/ \E pageno \in 1..2 : ImportPage(pageno, "/MediaBox")
    \/ \E ord \in KeyOrders : PutFormXobjects(ord)

SpecSources == InitSources /\ [][NextSources]_vars

\* emission in hash mode: import the two pages, emit by hash
InitHash == InitWith(EmitFiles)

NextHash ==
    \/ \E f \in 1..Len(files) : SetSourceStream(f)
    \/ \E pageno \in 1..2 : ImportPage(pageno, "/MediaBox")
    \/ \E ord \in KeyOrders : PutFormXobjectsUnordered(ord)

SpecHash == InitHash /\ [][NextHash]_vars

\* emission step by step: import the two pages and emit, one template or one
\* pending object at a time.  A call that was entered runs on until it
\* returns: nothing but the call itself can stop it.  Each step moves the
\* call on, so the fairness of the two steps is stated on call.
InitDrain == InitWith(CycleFiles)

NextDrain ==
    \/ \E f \in 1..Len(files) : SetSourceStream(f)
    \/ \E pageno \in 1..2 : ImportPage(pageno, "/MediaBox")
    \/ \E ord \in KeyOrders : PutFormXobjectsEnter(ord)
    \/ PutFormXobjectsTemplate
    \/ PutImportedObjectsStep

SpecDrain ==
    InitDrain /\ [][NextDrain]_vars
    /\ WF_call(PutFormXobjectsTemplate) /\ WF_call(PutImportedObjectsStep)

\* revisions: read a document of several revisions, ask for its page count
\* and page sizes, import its page
InitXref == InitWith(RevFiles)

\* the values ResolveObject is called with: references to the objects of the
\* document and to an object it does not have, references of a generation
\* the document does not have, values that are no reference, and the value
\* the previous call returned
MaxObjectID == 9
ResolveInputs ==
    {ObjRef(id, 0) : id \in 1..MaxObjectID}
    \cup {ObjRef(3, 1), ObjRef(4, 1)}
    \cup {Numeric(3), Token("/Page"), Dictionary("/Count" :> ObjRef(3, 0))}
    \cup (IF ret.op = "ResolveObject" /\ ret.err = ErrNil THEN {ret.val} ELSE {})

NextXref ==
    \/ \E f \in 1..Len(files) : SetSourceStream(f)
    \/ ImportPage(1, "/MediaBox")
    \/ ImporterGetNumPages
    \/ GetPageSizes
    \/ \E objSpec \in ResolveInputs : Resolve(objSpec)

SpecXref == InitXref /\ [][NextXref]_vars

\* positions: read a document, long or short, of one revision or several,
\* and resolve values against it, one call after the other
InitSeek == InitWith(EmitFiles \cup RevFiles)

NextSeek ==
    \/ \E f \in 1..Len(files) : SetSourceStream(f)
    \/ \E objSpec \in ResolveInputs : Resolve(objSpec)

SpecSeek == InitSeek /\ [][NextSeek]_vars

\* predictors: read a document whose cross-reference stream is predicted,
\* ask for its page count and page sizes, import its page
InitPredictor == InitWith(PredictedFiles)

NextPredictor ==
    \/ \E f \in 1..Len(files) : SetSourceStream(f)
    \/ ImportPage(1, "/MediaBox")
    \/ ImporterGetNumPages
    \/ GetPageSizes

SpecPredictor == InitPredictor /\ [][NextPredictor]_vars

\* the arguments ImportPage is called with: page numbers in and out of the
\* range of the two pages, and the five box names
PageNumbers == {-1, 0, 1, 2, 3}
BoxNames == {"/MediaBox", "/CropBox", "/BleedBox", "/TrimBox", "/ArtBox"}

\* pages: read a document with a page tree, ask for its page count and page
\* sizes, import pages by any box
InitPages == InitWith(PageFiles)

NextPages ==
    \/ \E f \in 1..Len(files) : SetSourceStream(f)
    \/ \E pageno \in PageNumbers, box \in BoxNames : ImportPage(pageno, box)
    \/ ImporterGetNumPages
    \/ GetPageSizes

SpecPages == InitPages /\ [][NextPages]_vars

\* placement: import the pages of a document and ask where to draw the
\* templates, by ids ImportPage returned and by ids it did not return
TemplateIDs == {0, 1, 2}
Offsets == {0, 5}
Widths == {0, 50}
Heights == {0, 80}

InitUse == InitWith(SizeFiles)

NextUse ==
    \/ \E f \in 1..Len(files) : SetSourceStream(f)
    \/ \E pageno \in 1..2, box \in {"/MediaBox", "/CropBox"} : ImportPage(pageno, box)
    \/ \E tplid \in TemplateIDs, _x \in Offsets, _y \in Offsets, _w \in Widths, _h \in Heights :
          UseTemplate(tplid, _x, _y, _w, _h)

SpecUse == InitUse /\ [][NextUse]_vars

(***************************************************************************)
(* Emission                                                                *)
(***************************************************************************)
\* PutFormXobjects has just returned without error
PutReturned == ret.op = "PutFormXobjects" /\ ret.err = ErrNil

\* ClearImportedObjects has dropped nothing: every object started is still in
\* the imported-objects map
NothingCleared == Len(pw.writtenObjs) = Len(pw.writtenObjPos)

\* the ids behind the references "<n> 0 R" written into a buffer
RefsWritten(buffer) == {buffer[j].n : j \in {j \in 1..Len(buffer) : buffer[j].k = "ref"}}

\* the source ids a value refers to
RECURSIVE RefsOf(_)
RefsOf(v) ==
    IF IsNil(v) THEN {}
    ELSE IF v.Type = PDFTypeObjRef THEN {v.ID}
    ELSE IF v.Type = PDFTypeDictionary THEN UNION {RefsOf(v.Dictionary[key]) : key \in DOMAIN v.Dictionary}
    ELSE IF v.Type = PDFTypeArray THEN UNION {RefsOf(v.Array[i]) : i \in 1..Len(v.Array)}
    ELSE {}

\* the source ids reachable from the ids S through references
ReachStep(pr, S) == S \cup UNION {RefsOf(ResolveObject(pr, ObjRef(id, 0)).val.Value) : id \in S}
RECURSIVE ReachableFrom(_, _)
ReachableFrom(pr, S) == IF ReachStep(pr, S) = S THEN S ELSE ReachableFrom(pr, ReachStep(pr, S))

\* the source objects reachable from the resources of the imported pages
Reachable ==
    IF pw.tpls = <<>> \/ imp.reader = 0 THEN {}
    ELSE ReachableFrom(readers[imp.reader],
                       UNION {RefsOf(pw.tpls[i].Resources) : i \in 1..Len(pw.tpls)})

\* the entries of the imported-objects map under the new id given to source object s
EntriesOf(s) == {i \in 1..Len(pw.writtenObjs) : pw.writtenObjs[i].id.id = pw.doOobjStack[s].NewID}

\* C1: once PutFormXobjects has returned without error (and nothing was
\* cleared), every reference "<n> 0 R" written into an emitted object names
\* an id n that is a key of the imported-objects map
C1_EmissionClosure ==
    (PutReturned /\ NothingCleared) =>
        \A i \in 1..Len(pw.writtenObjs) : RefsWritten(pw.writtenObjs[i].buffer) \subseteq GetImportedObjects

\* C2: once PutFormXobjects has returned without error (and nothing was
\* cleared), every source object reachable from the resources of an imported
\* page has exactly one entry in the imported-objects map
C2_ExactlyOnce ==
    (PutReturned /\ NothingCleared) =>
        \A s \in Reachable : Has(pw.doOobjStack, s) /\ Cardinality(EntriesOf(s)) = 1

\* the objects a step appends to the imported-objects map
Emitted == SubSeq(pw'.writtenObjs, Len(pw.writtenObjs) + 1, Len(pw'.writtenObjs))

\* C8: PutFormXobjects returns one entry per template, template i (from
\* zero) under the name /GOFPDITPL<i+offset>, mapped to the id of its Form
\* XObject, which is a key of the imported-objects map; one import at offset
\* 0 gives the name /GOFPDITPL0 and a non-empty imported-objects map
C8_TemplateMap ==
    PutReturned =>
        /\ Cardinality(DOMAIN ret.val) = Len(pw.tpls)
        /\ \A i \in 0..(Len(pw.tpls) - 1) :
              /\ Has(ret.val, <<"/GOFPDITPL", i + pw.tplIDOffset>>)
              /\ ret.val[<<"/GOFPDITPL", i + pw.tplIDOffset>>] = pw.tpls[i + 1].N
              /\ pw.tpls[i + 1].N \in GetImportedObjects
        /\ (Len(pw.tpls) = 1 /\ pw.tplIDOffset = 0) =>
              (DOMAIN ret.val = {<<"/GOFPDITPL", 0>>} /\ GetImportedObjects # {})

\* two templates named from offset 1 have been emitted
C8_Witness ==
    PutReturned /\ Len(pw.tpls) = 2 /\ pw.tplIDOffset = 1 /\ DOMAIN ret.val = {<<"/GOFPDITPL", 1>>, <<"/GOFPDITPL", 2>>}

\* C9: a PutFormXobjects that follows SetNextObjectID(n) and returns without
\* error gives its first object the id n, and the ids of the objects it
\* emits are exactly n, n+1, ..., n+m-1
C9_SeededIDs ==
    [][(ret.op = "SetNextObjectID" /\ ret'.op = "PutFormXobjects" /\ ret'.err = ErrNil) =>
          /\ (Emitted # <<>> => Emitted[1].id.id = ret.arg[1])
          /\ {Emitted[i].id.id : i \in 1..Len(Emitted)} = ret.arg[1]..(ret.arg[1] + Len(Emitted) - 1)]_vars

(***************************************************************************)
(* Revisions                                                               *)
(***************************************************************************)
\* the /Prev of a cross-reference section, 0 when it has none
PrevOf(sec) == IF "/Prev" \in DOMAIN sec.dict.Dictionary THEN sec.dict.Dictionary["/Prev"].Int ELSE 0

\* where a section says object id is: at an offset ("n"), in an object
\* stream ("c"), or nowhere ("-") when the section does not list the object
EntryInTable(subs, id) ==
    IF \E j \in 1..Len(subs) : id >= subs[j].start /\ id < subs[j].start + Len(subs[j].rows)
    THEN LET j == CHOOSE j \in 1..Len(subs) : id >= subs[j].start /\ id < subs[j].start + Len(subs[j].rows)
         IN [k |-> "n", pos |-> subs[j].rows[id - subs[j].start + 1].pos, stm |-> 0, idx |-> 0]
    ELSE [k |-> "-", pos |-> 0, stm |-> 0, idx |-> 0]

EntryInStream(sec, id) ==
    LET j == id - sec.dict.Dictionary["/Index"].Array[1].Int + 1 IN
    IF j \in 1..Len(sec.rows) /\ sec.rows[j].flag = 1
    THEN [k |-> "n", pos |-> sec.rows[j].f2, stm |-> 0, idx |-> 0]
    ELSE IF j \in 1..Len(sec.rows) /\ sec.rows[j].flag = 2
    THEN [k |-> "c", pos |-> 0, stm |-> sec.rows[j].f2, idx |-> sec.rows[j].f3]
    ELSE [k |-> "-", pos |-> 0, stm |-> 0, idx |-> 0]

EntryIn(sec, id) == IF sec.kind = "table" THEN EntryInTable(sec.subs, id) ELSE EntryInStream(sec, id)

\* the entry of object id in the newest revision that lists it, going from
\* the section at pos back along /Prev
RECURSIVE NewestEntry(_, _, _)
NewestEntry(f, pos, id) ==
    IF EntryIn(f.xrefs[pos], id).k # "-" THEN EntryIn(f.xrefs[pos], id)
    ELSE IF PrevOf(f.xrefs[pos]) > 0 THEN NewestEntry(f, PrevOf(f.xrefs[pos]), id)
    ELSE [k |-> "-", pos |-> 0, stm |-> 0, idx |-> 0]

\* the number of revisions that list object id, from the section at pos back
RECURSIVE Listings(_, _, _)
Listings(f, pos, id) ==
    (IF EntryIn(f.xrefs[pos], id).k # "-" THEN 1 ELSE 0)
    + (IF PrevOf(f.xrefs[pos]) > 0 THEN Listings(f, PrevOf(f.xrefs[pos]), id) ELSE 0)

\* the content of object id in the newest revision that lists it
NewestValue(f, id) ==
    LET e == NewestEntry(f, f.startxref, id) IN
    IF e.k = "n" THEN f.body[e.pos].Value
    ELSE LET stm == f.body[NewestEntry(f, f.startxref, e.stm).pos].Stream
         IN stm.objs[stm.pairs[e.idx + 1].pos]

\* the ids of the objects of a document
IdsOf(f) == {o \div 10 : o \in DOMAIN f.body} \cup {3}

\* C3: once the chain of cross-reference sections linked by /Prev has been
\* read, every object listed by more than one revision resolves to its
\* content in the newest revision that lists it, and when that revision gives
\* an offset the cross-reference map holds that offset
C3_NewestRevisionWins ==
    (ret.op = "SetSourceStream" /\ ret.err = ErrNil) =>
        \A id \in IdsOf(files[ret.val]) :
            Listings(files[ret.val], files[ret.val].startxref, id) > 1 =>
                /\ ResolveObject(readers[ret.val], ObjRef(id, 0)).err = ErrNil
                /\ ResolveObject(readers[ret.val], ObjRef(id, 0)).val.Value = NewestValue(files[ret.val], id)
                /\ NewestEntry(files[ret.val], files[ret.val].startxref, id).k = "n" =>
                      XrefOffset(readers[ret.val], ObjRef(id, 0))
                          = NewestEntry(files[ret.val], files[ret.val].startxref, id).pos

(***************************************************************************)
(* Pages                                                                   *)
(***************************************************************************)
\* the dictionary of object id as the (one-revision) document f writes it
OwnDict(f, id) == f.body[OffsetOf(id, 0)].Value.Dictionary

\* the value an entry stands for: the object a reference names, or the entry
Written(f, v) == IF v.Type = PDFTypeObjRef THEN f.body[OffsetOf(v.ID, 0)].Value ELSE v

\* /Count of the top /Pages node of f, object 2
ResolvedCount(f) == Written(f, OwnDict(f, 2)["/Count"]).Int

\* the number of /Page leaves under the nodes kids[i..] of f
RECURSIVE Leaves(_, _, _)
Leaves(f, kids, i) ==
    IF i > Len(kids) THEN 0
    ELSE (IF OwnDict(f, kids[i].ID)["/Type"].Token = "/Page" THEN 1
          ELSE Leaves(f, OwnDict(f, kids[i].ID)["/Kids"].Array, 1))
         + Leaves(f, kids, i + 1)

LeafCount(f) == Leaves(f, <<ObjRef(2, 0)>>, 1)

\* C4: a document whose /Count, written as a number or as a reference, is the
\* number of its /Page leaves gives a Reader, and GetNumPages() of the Reader
\* is the resolved /Count and the number of leaves in the flattened page list
C4_PageCount ==
    ret.op = "SetSourceStream" =>
        /\ ret.err = ErrNil
        /\ GetNumPages(readers[ret.arg[1]]).val = ResolvedCount(files[ret.arg[1]])
        /\ GetNumPages(readers[ret.arg[1]]).val = LeafCount(files[ret.arg[1]])
        /\ Len(readers[ret.arg[1]].pages) = LeafCount(files[ret.arg[1]])

\* the step is an ImportPage that made a new template
FreshImport ==
    ret'.op = "ImportPage" /\ ret'.err = ErrNil /\ Len(pw'.tpls) = Len(pw.tpls) + 1

\* the template the step made, and the boxes and /Rotate of the page it shows
Imported == pw'.tpls[Len(pw'.tpls)]
ImportedBoxes == GetPageBoxes(readers[imp'.reader], ret'.arg[1], 1).val
ImportedRotate == GetPageRotation(readers[imp'.reader], ret'.arg[1]).val.Int

\* C5: a page imported by /BleedBox, /TrimBox or /ArtBox that has neither
\* that box nor a /CropBox gives a template whose box is the /MediaBox box
C5_BoxFallback ==
    [][(/\ FreshImport
        /\ ret'.arg[2] \in {"/BleedBox", "/TrimBox", "/ArtBox"}
        /\ ImportedBoxes[ret'.arg[2]] = <<>>
        /\ ImportedBoxes["/CropBox"] = <<>>)
       => Imported.Box = ImportedBoxes["/MediaBox"]]_vars

\* the box under name of the nearest node that has one, from object id up
\* the /Parent chain of f; empty when no node of the chain has one
RECURSIVE NearestBox(_, _, _)
NearestBox(f, id, name) ==
    IF name \in DOMAIN OwnDict(f, id) THEN BoxFrom(OwnDict(f, id)[name].Array, 1)
    ELSE IF "/Parent" \in DOMAIN OwnDict(f, id) THEN NearestBox(f, OwnDict(f, id)["/Parent"].ID, name)
    ELSE <<>>

\* the object id of page pageno of the document in use
PageID(pageno) == readers[imp.reader].pages[pageno].ID

\* C6: for a page without an entry of its own for a box name, GetPageBoxes
\* (called for every page by GetPageSizes) returns the box of the nearest
\* ancestor that has one, and the empty result when no ancestor has one
C6_BoxInheritance ==
    (ret.op = "GetPageSizes" /\ ret.err = ErrNil) =>
        \A pageno \in DOMAIN ret.val : \A name \in BoxNames :
            name \notin DOMAIN OwnDict(files[imp.reader], PageID(pageno)) =>
                ret.val[pageno][name] =
                    NearestBox(files[imp.reader],
                               OwnDict(files[imp.reader], PageID(pageno))["/Parent"].ID, name)

\* page 2 has its /MediaBox from the root, two levels up, and no /CropBox
C6_Witness ==
    /\ ret.op = "GetPageSizes" /\ ret.err = ErrNil
    /\ 2 \in DOMAIN ret.val
    /\ "/MediaBox" \notin DOMAIN OwnDict(files[imp.reader], 5)
    /\ "/MediaBox" \notin DOMAIN OwnDict(files[imp.reader], 3)
    /\ ret.val[2]["/MediaBox"] = BoxFrom(BoxAt("/MediaBox", "root").Array, 1)
    /\ ret.val[2]["/CropBox"] = <<>>

\* the rotation the table of C7 gives for a /Rotate value
TableRotation(r) ==
    CASE r = 0 -> 0 [] r = 90 -> -270 [] r = 180 -> -180 [] r = 270 -> -90
      [] r = -90 -> -90 [] r = 450 -> -270 [] r = 720 -> 0

\* the /Rotate value is an odd number of quarter turns
OddSteps(r) == ((r % 360) \div 90) % 2 = 1

\* width and height of the template are those of its box, swapped or not
Swapped(tpl) == tpl.W = Coord(tpl.Box, "h") /\ tpl.H = Coord(tpl.Box, "w")
Unswapped(tpl) == tpl.W = Coord(tpl.Box, "w") /\ tpl.H = Coord(tpl.Box, "h")

\* C7: for /Rotate 0, 90, 180, 270, -90, 450, 720 ImportPage stores the
\* rotation 0, -270, -180, -90, -90, -270, 0, and swaps width and height
\* exactly when the number of quarter turns is odd
C7_RotationTable ==
    [][(FreshImport /\ ImportedRotate \in Rotations) =>
          /\ Imported.Rotation = TableRotation(ImportedRotate)
          /\ IF OddSteps(ImportedRotate) THEN Swapped(Imported) ELSE Unswapped(Imported)]_vars

\* C7, amended: ImportPage stores the negation of /Rotate reduced to
\* 0..359, that is 0, -90, -180, -270, -270, -90, 0 for the seven values,
\* and swaps width and height exactly when the number of quarter turns is odd
C7_NegatedRotation ==
    [][(FreshImport /\ ImportedRotate \in Rotations) =>
          /\ Imported.Rotation = -(ImportedRotate % 360)
          /\ IF OddSteps(ImportedRotate) THEN Swapped(Imported) ELSE Unswapped(Imported)]_vars

\* a page with /Rotate -90 was imported: rotation -270, the sides swapped
C7_Witness ==
    /\ ret.op = "ImportPage" /\ ret.err = ErrNil
    /\ GetPageRotation(readers[imp.reader], ret.arg[1]).val.Int = -90
    /\ pw.tpls[imp.tplMap[ret.val].TemplateID + 1].Rotation = -270
    /\ pw.tpls[imp.tplMap[ret.val].TemplateID + 1].W = 200
    /\ pw.tpls[imp.tplMap[ret.val].TemplateID + 1].H = 100

\* C10: ImportPage with a page number outside 1..GetNumPages() returns an
\* error to the caller and appends no template
C10_PageOutOfRange ==
    [][(/\ ret'.op = "ImportPage"
        /\ imp.reader # 0
        /\ ret'.arg[1] \notin 1..GetNumPages(readers[imp.reader]).val)
       => (ret'.err \notin {ErrNil, Panic} /\ pw'.tpls = pw.tpls)]_vars

\* the box names GetPDFBoxDimensions is said to try for a requested name
FallbackChain(name) ==
    CASE name = "/MediaBox" -> {"/MediaBox"}
      [] name = "/CropBox" -> {"/CropBox", "/MediaBox"}
      [] OTHER -> {name, "/CropBox", "/MediaBox"}

\* the step is an ImportPage of a page of the document that was not
\* imported before
UncachedImport ==
    /\ ret'.op = "ImportPage"
    /\ imp.reader # 0
    /\ ret'.arg[1] \in 1..GetNumPages(readers[imp.reader]).val
    /\ ret'.arg[1] \notin DOMAIN imp.importedPages

\* C11: when the requested box and every box of its fallback chain are absent
\* from the page and its ancestors, ImportPage returns an error, whatever the
\* requested name, and makes no template
C11_MissingBox ==
    [][(/\ UncachedImport
        /\ \A name \in FallbackChain(ret'.arg[2]) :
              GetPageBoxes(readers[imp.reader], ret'.arg[1], 1).val[name] = <<>>)
       => (ret'.err \notin {ErrNil, Panic} /\ pw'.tpls = pw.tpls)]_vars

(***************************************************************************)
(* Placement                                                               *)
(***************************************************************************)
\* C12: UseTemplate with a template id that ImportPage never returned is
\* reported to the caller as an error: the call does not crash and returns
\* no placement data
C12_UnknownTemplate ==
    [][(ret'.op = "UseTemplate" /\ ret'.arg[1] \notin DOMAIN imp.tplMap)
       => (ret'.err \notin {ErrNil, Panic} /\ IsNil(ret'.val))]_vars

\* every template of the writer has a box with positive sides
ProperTemplates == \A i \in 1..Len(pw.tpls) : pw.tpls[i].W > 0 /\ pw.tpls[i].H > 0

\* C17: UseTemplate(t, x, y, w, h) fills in a zero width or height from the
\* size of template t: both scale factors are 1 when w = h = 0, and they are
\* equal when exactly one of w and h is 0, whatever the other templates are
C17_OwnSize ==
    (ret.op = "UseTemplate" /\ ret.err = ErrNil /\ ProperTemplates) =>
        /\ (ret.arg[4] = 0 /\ ret.arg[5] = 0) =>
              (ret.val.scaleX = FloatOf(1) /\ ret.val.scaleY = FloatOf(1))
        /\ ((ret.arg[4] = 0) # (ret.arg[5] = 0)) => ret.val.scaleX = ret.val.scaleY

\* C16: ImportPage with a page number that was imported before returns the
\* template number the first import of that page returned, and leaves the
\* template list, the template counter and the template map as they are;
\* the number kept for a page is the one its first import returned and it
\* never changes
C16_ImportCache ==
    [][/\ (ret'.op = "ImportPage" /\ ret'.arg[1] \in DOMAIN imp.importedPages) =>
            /\ ret'.err = ErrNil
            /\ ret'.val = imp.importedPages[ret'.arg[1]]
            /\ pw'.tpls = pw.tpls
            /\ imp'.tplN = imp.tplN
            /\ imp'.tplMap = imp.tplMap
       /\ \A p \in DOMAIN imp.importedPages :
            p \in DOMAIN imp'.importedPages /\ imp'.importedPages[p] = imp.importedPages[p]
       /\ \A p \in DOMAIN imp'.importedPages \ DOMAIN imp.importedPages :
            ret'.op = "ImportPage" /\ ret'.arg[1] = p /\ ret'.val = imp'.importedPages[p]]_vars

\* page 1 was imported again after page 2: the call returned template 0 and
\* there are still two templates
C16_Witness ==
    /\ ret.op = "ImportPage" /\ ret.err = ErrNil
    /\ ret.arg[1] = 1 /\ ret.val = 0
    /\ imp.tplN = 2 /\ Len(pw.tpls) = 2 /\ DOMAIN imp.tplMap = {0, 1}

\* box a lies inside box b
Inside(a, b) ==
    /\ a.llx >= b.llx /\ a.lly >= b.lly /\ a.urx <= b.urx /\ a.ury <= b.ury

\* C19: a template made by ImportPage for a box name other than /MediaBox
\* has a box that lies inside the page's /MediaBox, with x, y, w and h
\* computed from the clamped corners, also when a fallback box was taken
C19_ClippedBox ==
    [][(FreshImport /\ ret'.arg[2] # "/MediaBox" /\ ImportedBoxes["/MediaBox"] # <<>>) =>
          /\ DOMAIN Imported.Box = DOMAIN ImportedBoxes["/MediaBox"]
          /\ Inside(Imported.Box, ImportedBoxes["/MediaBox"])
          /\ Imported.Box.x = Imported.Box.llx /\ Imported.Box.y = Imported.Box.lly
          /\ Imported.Box.w = Imported.Box.urx - Imported.Box.llx
          /\ Imported.Box.h = Imported.Box.ury - Imported.Box.lly]_vars

(***************************************************************************)
(* Cross-reference maps                                                    *)
(***************************************************************************)
\* C20: after the cross-reference sections of a document have been parsed
\* (classic tables, cross-reference streams, /Prev chains that mix them) no
\* object id is a key of both xref and xrefStream
C20_DisjointMaps ==
    (ret.op = "SetSourceStream" /\ ret.err = ErrNil) =>
        DOMAIN readers[ret.arg[1]].xref \cap DOMAIN readers[ret.arg[1]].xrefStream = {}

(***************************************************************************)
(* Object resolution                                                       *)
(***************************************************************************)
\* C14: resolving the result of a successful resolution of a reference gives
\* that result again, and a value that is no reference is returned as it is
C14_ResolveIdempotent ==
    [][(ret'.op = "ResolveObject") =>
          /\ (ret.op = "ResolveObject" /\ ret.err = ErrNil /\ ret.arg[1].Type = PDFTypeObjRef
              /\ ret'.arg[1] = ret.val) => (ret'.err = ErrNil /\ ret'.val = ret.val)
          /\ ret'.arg[1].Type # PDFTypeObjRef => (ret'.err = ErrNil /\ ret'.val = ret'.arg[1])]_vars

\* the object a reference resolved to was resolved again: it is the page of
\* the newest revision, stored in an object stream
C14_Witness ==
    /\ ret.op = "ResolveObject" /\ ret.err = ErrNil
    /\ ret.arg[1].Type = PDFTypeObject /\ ret.arg[1].ID = 3
    /\ ret.val = ret.arg[1]
    /\ Has(readers[imp.reader].xrefStream, 3) /\ ~Has(readers[imp.reader].xref, 3)

(***************************************************************************)
(* Predictor                                                               *)
(***************************************************************************)
\* the cross-reference stream of the document read by the last call
ReadSection == files[ret.arg[1]].xrefs[files[ret.arg[1]].startxref]

\* C15: the rows of a cross-reference stream that were encoded row by row
\* with the Paeth predictor of PNG, modulo 256, are the rows the parser gets
\* from its predictor decoding, and the document is read with them
C15_PaethRoundTrip ==
    (ret.op = "SetSourceStream" /\ ReadSection.data[1][1] = FilterTag("paeth")) =>
        /\ StreamRows(ReadSection, ReadSection.dict) = ReadSection.raw
        /\ ret.err = ErrNil

\* the same for rows that were encoded with the Up filter of PNG
UpRoundTrip ==
    (ret.op = "SetSourceStream" /\ ReadSection.data[1][1] = FilterTag("up")) =>
        /\ StreamRows(ReadSection, ReadSection.dict) = ReadSection.raw
        /\ ret.err = ErrNil

(***************************************************************************)
(* Termination                                                             *)
(***************************************************************************)
\* the source ids that wait in objStack
Queued(w) == {id \in DOMAIN w.objStack : ~IsNil(w.objStack[id])}

\* C18: a PutFormXobjects that was entered returns, whatever references the
\* source objects hold to one another; during the call a source id gets its
\* new id when it is first seen and keeps it, and an id that was seen before
\* is not queued again
C18_Terminates ==
    /\ (~IsNil(call)) ~> (IsNil(call) /\ ret.op = "PutFormXobjects")
    /\ [][(~IsNil(call)) =>
            /\ \A id \in DOMAIN pw.doOobjStack :
                  id \in DOMAIN pw'.doOobjStack /\ pw'.doOobjStack[id] = pw.doOobjStack[id]
            /\ \A id \in Queued(pw') \ Queued(pw) : id \notin DOMAIN pw.doOobjStack]_<<pw, call>>

\* the call has returned after it emitted the objects 6 and 7 that refer to
\* one another
C18_Witness ==
    /\ IsNil(call) /\ ret.op = "PutFormXobjects" /\ ret.err = ErrNil
    /\ {6, 7} \subseteq DOMAIN pw.doOobjStack
    /\ Queued(pw) = {}
    /\ ResolveObject(readers[imp.reader], ObjRef(6, 0)).val.Value = DepDict({7})
    /\ ResolveObject(readers[imp.reader], ObjRef(7, 0)).val.Value = DepDict({6})

(***************************************************************************)
(* Hash mode                                                               *)
(***************************************************************************)
\* PutFormXobjectsUnordered has returned without error
UnorderedReturned == ret.op = "PutFormXobjectsUnordered" /\ ret.err = ErrNil

\* the piece of every emitted object with the hash objHash that starts at
\* the position pos is the hash
HashAt(objHash, pos, hash) ==
    \A b \in GetImportedObjectsUnordered(objHash) : pos < Len(b) /\ b[pos + 1] = Sha(hash)

\* C13: in hash mode, for every (object hash, offset, referent hash) of the
\* hash-position map the emitted bytes of the object hold the referent hash
\* at the offset, and the referent hash is a key of the imported-objects map
C13_HashPositions ==
    (pw.useHash /\ UnorderedReturned) =>
        \A t \in GetImportedObjHashPos :
            /\ HashAt(t[1], t[2], t[3])
            /\ GetImportedObjectsUnordered(t[3]) # {}

\* the first half of C13 alone: the bytes at a recorded position are the
\* referent hash
HashFidelity ==
    (pw.useHash /\ UnorderedReturned) =>
        \A t \in GetImportedObjHashPos :
            GetImportedObjectsUnordered(t[1]) # {} /\ HashAt(t[1], t[2], t[3])

\* the second half of C13 when every referent has a source id below the
\* bound of the drain loop
HashKeysBelowBound ==
    (pw.useHash /\ UnorderedReturned
        /\ \A id \in DOMAIN pw.doOobjStack : id < MaxObjStackKey) =>
        \A t \in GetImportedObjHashPos : GetImportedObjectsUnordered(t[3]) # {}

(***************************************************************************)
(* Free entries                                                            *)
(***************************************************************************)
\* the rows of the classic tables of the document f: object id and status
TableRows(f) ==
    UNION {UNION {{[id |-> f.xrefs[pos].subs[j].start + k - 1, status |-> f.xrefs[pos].subs[j].rows[k].status] :
                      k \in 1..Len(f.xrefs[pos].subs[j].rows)} : j \in 1..Len(f.xrefs[pos].subs)} :
              pos \in {q \in DOMAIN f.xrefs : f.xrefs[q].kind = "table"}}

\* the ids a cross-reference stream of f lists at an offset
StreamIds(f) ==
    UNION {{id \in 0..MaxObjectID : EntryInStream(f.xrefs[pos], id).k = "n"} :
              pos \in {q \in DOMAIN f.xrefs : f.xrefs[q].kind = "stream"}}

\* C26: once the classic tables of a document have been read, an object id
\* that only rows marked 'f' list has no entry in xref
C26_FreeNotRecorded ==
    (ret.op = "SetSourceStream" /\ ret.err = ErrNil) =>
        \A r \in TableRows(files[ret.val]) :
            (/\ r.status = "f"
             /\ r.id \notin StreamIds(files[ret.val])
             /\ \A r2 \in TableRows(files[ret.val]) : r2.id = r.id => r2.status = "f")
            => r.id \notin DOMAIN readers[ret.val].xref

\* the rows marked 'n' are recorded
UsedRecorded ==
    (ret.op = "SetSourceStream" /\ ret.err = ErrNil) =>
        \A r \in TableRows(files[ret.val]) : r.status = "n" => r.id \in DOMAIN readers[ret.val].xref

(***************************************************************************)
(* Resources                                                               *)
(***************************************************************************)
\* the /Resources of the nearest node that has one, from object id up the
\* /Parent chain of f; the empty value when no node of the chain has one
RECURSIVE NearestResources(_, _)
NearestResources(f, id) ==
    IF "/Resources" \in DOMAIN OwnDict(f, id) THEN OwnDict(f, id)["/Resources"]
    ELSE IF "/Parent" \in DOMAIN OwnDict(f, id) THEN NearestResources(f, OwnDict(f, id)["/Parent"].ID)
    ELSE PdfValue

\* C23: for a page without /Resources of its own GetPageResources returns
\* the /Resources of the nearest ancestor that has one, and the empty value
\* when no node of the chain has one
C23_ResourcesInherited ==
    (ret.op = "GetPageResources" /\ ret.err = ErrNil) =>
        ("/Resources" \notin DOMAIN OwnDict(files[imp.reader], PageID(ret.arg[1])) =>
            ret.val = NearestResources(files[imp.reader], PageID(ret.arg[1])))

\* a page with /Resources of its own gets them
OwnResources ==
    (ret.op = "GetPageResources" /\ ret.err = ErrNil) =>
        ("/Resources" \in DOMAIN OwnDict(files[imp.reader], PageID(ret.arg[1])) =>
            ret.val = OwnDict(files[imp.reader], PageID(ret.arg[1]))["/Resources"])

\* what a page without /Resources gets: the dictionary of its parent node
ParentReturned ==
    (ret.op = "GetPageResources" /\ ret.err = ErrNil) =>
        ("/Resources" \notin DOMAIN OwnDict(files[imp.reader], PageID(ret.arg[1])) =>
            ret.val = Dictionary(OwnDict(files[imp.reader], 3)))

(***************************************************************************)
(* Resolved identity                                                       *)
(***************************************************************************)
\* ResolveObject was called with a reference and returned without error
ReferenceResolved ==
    ret.op = "ResolveObject" /\ ret.arg[1].Type = PDFTypeObjRef /\ ret.err = ErrNil

\* C22: the object ResolveObject returns for a reference (id, gen) has the
\* id and the generation of the reference
C22_ResolvedIdentity ==
    ReferenceResolved => ret.val.ID = ret.arg[1].ID /\ ret.val.Gen = ret.arg[1].Gen

\* C22 for the objects located through xref
IdentityThroughXref ==
    (ReferenceResolved /\ Has(readers[imp.reader].xref, ret.arg[1].ID)) =>
        ret.val.ID = ret.arg[1].ID /\ ret.val.Gen = ret.arg[1].Gen

\* a reference whose id is in neither map yields an error
UnknownIsError ==
    (ret.op = "ResolveObject" /\ ret.arg[1].Type = PDFTypeObjRef
        /\ ~Has(readers[imp.reader].xref, ret.arg[1].ID)
        /\ ~Has(readers[imp.reader].xrefStream, ret.arg[1].ID)) => ret.err # ErrNil

(***************************************************************************)
(* New ids                                                                 *)
(***************************************************************************)
\* C28: the objects started so far (Form XObjects and dependencies, of this
\* and of earlier PutFormXobjects calls, cleared or not) have pairwise
\* distinct new ids
C28_DistinctIds ==
    \A i, j \in 1..Len(pw.writtenObjPos) :
        i # j => pw.writtenObjPos[i].id.id # pw.writtenObjPos[j].id.id

\* a second PutFormXobjects has returned after the objects of the first were
\* cleared, and emitted two Form XObjects and a dependency
C28_Witness ==
    /\ ret.op = "PutFormXobjects" /\ ret.err = ErrNil
    /\ Len(pw.writtenObjs) >= 3
    /\ Len(pw.writtenObjPos) > Len(pw.writtenObjs)
    /\ Len(pw.tpls) = 2

(***************************************************************************)
(* Template names                                                          *)
(***************************************************************************)
\* the name UseTemplate returns for the template number tplid
UseTemplateName(tplid) ==
    UseTemplateData(pw, imp.tplMap[tplid].TemplateID, pw.tpls[imp.tplMap[tplid].TemplateID + 1],
                    FloatOf(0), FloatOf(0), [w |-> FloatOf(1), h |-> FloatOf(1)]).name

\* C29: the name UseTemplate returns for a template number never changes
C29_StableNames ==
    [][\A tplid \in DOMAIN imp.tplMap : UseTemplateName(tplid)' = UseTemplateName(tplid)]_vars

\* at any one time two template numbers have different names
DistinctNames ==
    \A t1, t2 \in DOMAIN imp.tplMap : t1 # t2 => UseTemplateName(t1) # UseTemplateName(t2)

(***************************************************************************)
(* Sources                                                                 *)
(***************************************************************************)
\* the template the Importer keeps under the template number tplN
TemplateOf(tplN) == pw.tpls[imp.tplMap[tplN].TemplateID + 1]

\* C27: the template number ImportPage(p) returns while the source S is
\* current designates a template with the resources and the content of page
\* p of S
C27_BoundToSource ==
    (ret.op = "ImportPage" /\ ret.err = ErrNil) =>
        /\ TemplateOf(ret.val).Resources = GetPageResources(readers[imp.reader], ret.arg[1]).val
        /\ TemplateOf(ret.val).Buffer = GetContent(readers[imp.reader], ret.arg[1]).val

\* C27 for a page number that is imported for the first time
FirstImportBound ==
    [][(ret'.op = "ImportPage" /\ ret'.err = ErrNil /\ ~Has(imp.importedPages, ret'.arg[1])) =>
        /\ pw'.tpls[imp'.tplMap[ret'.val].TemplateID + 1].Resources
              = GetPageResources(readers'[imp'.reader], ret'.arg[1]).val
        /\ pw'.tpls[imp'.tplMap[ret'.val].TemplateID + 1].Buffer
              = GetContent(readers'[imp'.reader], ret'.arg[1]).val]_vars

\* PutFormXobjects resolves the references of every template in the source
\* the template was imported from
EmittedFromOwnSource ==
    (ret.op = "PutFormXobjects" /\ ret.err = ErrNil) =>
        \A i \in 1..Len(pw.tpls) : pw.tpls[i].Reader = pw.r

(***************************************************************************)
(* Position of the source stream                                           *)
(***************************************************************************)
\* C21: whatever ResolveObject returns, a value or an error, it leaves the
\* source stream at the position it found it at
C21_PositionRestored ==
    [][ret'.op = "ResolveObject" => readers'[imp.reader].pos = readers[imp.reader].pos]_vars

\* a call that returns a value leaves the stream where it found it
RestoredOnSuccess ==
    [][(ret'.op = "ResolveObject" /\ ret'.err = ErrNil)
          => readers'[imp.reader].pos = readers[imp.reader].pos]_vars

\* a call that fails once the stream was moved to the object leaves it one
\* buffer behind the offset it was moved to
LeftAtOffset ==
    [][(/\ ret'.op = "ResolveObject"
        /\ ret'.err # ErrNil
        /\ ret'.arg[1].Type = PDFTypeObjRef
        /\ Has(readers[imp.reader].xref, ret'.arg[1].ID))
          => readers'[imp.reader].pos =
                Fill(files[imp.reader], XrefOffset(readers[imp.reader], ret'.arg[1]))]_vars

\* a failed call has left the stream at another position than it was at
SeekMoved ==
    /\ ret.op = "ResolveObject"
    /\ ret.err # ErrNil
    /\ readers[imp.reader].pos # NewPdfReaderFromStream(imp.reader).pr.pos

(***************************************************************************)
(* Tokens: the reader over the bytes of a stream                           *)
(***************************************************************************)
\* A stream b is the sequence of its bytes, a byte a string of one
\* character; a token is the sequence of its bytes, the empty token <<>>.
\* A bufio.Reader over b is the index p of the byte it reads next, and
\* stack is pr.stack, the tokens pushed back.
KwObj == <<"o", "b", "j">>
KwR == <<"R">>
KwTrue == <<"t", "r", "u", "e">>
KwFalse == <<"f", "a", "l", "s", "e">>
KwNull == <<"n", "u", "l", "l">>
KwStream == <<"s", "t", "r", "e", "a", "m">>
KwEndobj == <<"e", "n", "d", "o", "b", "j">>
KwStartxref == <<"s", "t", "a", "r", "t", "x", "r", "e", "f">>
DecimalDigits == <<"0", "1", "2", "3", "4", "5", "6", "7", "8", "9">>
HexDigits ==
    {DecimalDigits[i] : i \in 1..10} \cup {"a", "b", "c", "d", "e", "f", "A", "B", "C", "D", "E", "F"}

RECURSIVE skipWhitespace(_, _)
skipWhitespace(b, p) ==
    IF p > Len(b) THEN p
    ELSE IF b[p] \in {" ", "\n", "\r", "\t"} THEN skipWhitespace(b, p + 1)
    ELSE p

RECURSIVE skipComments(_, _)
skipComments(b, p) ==
    IF p > Len(b) THEN [p |-> p, err |-> "Failed to ReadByte while skipping comments"]
    ELSE IF b[p] = "\n" THEN [p |-> p + 1, err |-> ErrNil]
    ELSE IF b[p] = "\r"
    THEN IF p + 1 > Len(b) THEN [p |-> p + 1, err |-> "Failed to read byte"]
         ELSE [p |-> IF b[p + 1] = "\n" THEN p + 2 ELSE p + 1, err |-> ErrNil]
    ELSE skipComments(b, p + 1)

\* what readToken returns, and the reader and the stack it leaves
Tok(tok, err, p, stack) == [tok |-> tok, err |-> err, p |-> p, stack |-> stack]

\* the default case of readToken: bytes are added up to the next delimiter
RECURSIVE readRegular(_, _, _, _)
readRegular(b, p, stack, str) ==
    IF p > Len(b) THEN Tok(<<>>, "Failed to read byte", p, stack)
    ELSE IF b[p] \in {" ", "%", "[", "]", "<", ">", "(", ")", "\r", "\n", "\t", "/"}
    THEN Tok(str, ErrNil, p, stack)
    ELSE readRegular(b, p + 1, stack, Append(str, b[p]))

RECURSIVE readToken(_, _, _)

readTokenAfterComment(b, c, stack) ==
    IF c.err # ErrNil THEN Tok(<<>>, "Failed to skip comments", c.p, stack)
    ELSE readToken(b, c.p, stack)

\* readToken once whitespace has been skipped
readTokenAt(b, p, stack) ==
    IF p > Len(b) THEN Tok(<<>>, ErrNil, p, stack)
    ELSE IF b[p] \in {"[", "]", "(", ")"} THEN Tok(<<b[p]>>, ErrNil, p + 1, stack)
    ELSE IF b[p] \in {"<", ">"}
    THEN IF p + 1 > Len(b) THEN Tok(<<>>, "Failed to read byte", p + 1, stack)
         ELSE IF b[p + 1] = b[p] THEN Tok(<<b[p], b[p]>>, ErrNil, p + 2, stack)
         ELSE Tok(<<b[p]>>, ErrNil, p + 1, stack)
    ELSE IF b[p] = "%" THEN readTokenAfterComment(b, skipComments(b, p + 1), stack)
    ELSE readRegular(b, p + 1, stack, <<b[p]>>)

readToken(b, p, stack) ==
    IF Len(stack) > 0
    THEN Tok(stack[Len(stack)], ErrNil, p, SubSeq(stack, 1, Len(stack) - 1))
    ELSE readTokenAt(b, skipWhitespace(b, p), stack)

\* the loop of isNumeric over the bytes from index i on (counted from 0):
\* p and s are the indices of the point and of the exponent seen
RECURSIVE isNumericFrom(_, _, _, _)
isNumericFrom(str, i, p, s) ==
    IF i >= Len(str) THEN TRUE
    ELSE IF str[i + 1] = "."
    THEN IF p > 0 \/ s > 0 \/ i + 1 = Len(str) THEN FALSE ELSE isNumericFrom(str, i + 1, i, s)
    ELSE IF str[i + 1] \in {"e", "E"}
    THEN IF i = 0 \/ s > 0 \/ i + 1 = Len(str) THEN FALSE ELSE isNumericFrom(str, i + 1, p, i)
    ELSE IF \A d \in 1..10 : DecimalDigits[d] # str[i + 1] THEN FALSE
    ELSE isNumericFrom(str, i + 1, p, s)

\* isNumeric once the sign has been taken off
isNumericUnsigned(str) ==
    IF Len(str) > 2 /\ str[1] = "0" /\ str[2] \in {"x", "X"}
    THEN \A i \in 3..Len(str) : str[i] \in HexDigits
    ELSE isNumericFrom(str, 0, 0, 0)

\* a token holds no whitespace to trim
isNumeric(str) ==
    IF str = <<>> THEN FALSE
    ELSE IF str[1] \in {"-", "+"}
    THEN IF Len(str) = 1 THEN FALSE ELSE isNumericUnsigned(Tail(str))
    ELSE isNumericUnsigned(str)

\* strconv.Atoi
DigitOf(c) == (CHOOSE d \in 1..10 : DecimalDigits[d] = c) - 1

RECURSIVE AtoiFrom(_, _, _)
AtoiFrom(str, i, n) ==
    IF i > Len(str) THEN [n |-> n, err |-> ErrNil]
    ELSE IF \A d \in 1..10 : DecimalDigits[d] # str[i] THEN [n |-> 0, err |-> "invalid syntax"]
    ELSE AtoiFrom(str, i + 1, 10 * n + DigitOf(str[i]))

Atoi(str) ==
    IF str = <<>> THEN [n |-> 0, err |-> "invalid syntax"]
    ELSE IF str[1] \in {"-", "+"}
    THEN IF Len(str) = 1 THEN [n |-> 0, err |-> "invalid syntax"]
         ELSE [n |-> (IF str[1] = "-" THEN -1 ELSE 1) * AtoiFrom(Tail(str), 1, 0).n,
               err |-> AtoiFrom(Tail(str), 1, 0).err]
    ELSE AtoiFrom(str, 1, 0)

\* fmt.Sprintf("%d", n)
RECURSIVE Itoa(_)
Itoa(n) ==
    IF n < 0 THEN <<"-">> \o Itoa(-n)
    ELSE IF n < 10 THEN <<DecimalDigits[n + 1]>>
    ELSE Append(Itoa(n \div 10), DecimalDigits[(n % 10) + 1])

\* what readValue returns, and the reader and the stack it leaves
Val(val, err, p, stack) == [val |-> val, err |-> err, p |-> p, stack |-> stack]

\* result := &PdfValue{} with Type -1 and Token t; the strings of a value
\* read from bytes are sequences of bytes
NewValue(t) == [PdfValue EXCEPT !.Type = -1, !.String = <<>>, !.Token = t]

\* case "<": the bytes up to '>'
RECURSIVE readHex(_, _, _)
readHex(b, p, s) ==
    IF p > Len(b) THEN [s |-> s, err |-> "Failed to read byte", p |-> p]
    ELSE IF b[p] # ">" THEN readHex(b, p + 1, Append(s, b[p]))
    ELSE [s |-> s, err |-> ErrNil, p |-> p + 1]

\* case "(": the bytes until the brackets are balanced
RECURSIVE readString(_, _, _, _)
readString(b, p, buf, openBrackets) ==
    IF openBrackets <= 0 THEN [s |-> buf, err |-> ErrNil, p |-> p]
    ELSE IF p > Len(b) THEN [s |-> buf, err |-> "Failed to read byte", p |-> p]
    ELSE IF b[p] = "(" THEN readString(b, p + 1, Append(buf, b[p]), openBrackets + 1)
    ELSE IF b[p] = ")"
    THEN readString(b, p + 1, IF openBrackets - 1 > 0 THEN Append(buf, b[p]) ELSE buf, openBrackets - 1)
    ELSE IF b[p] = "\\"
    THEN IF p + 1 > Len(b) THEN [s |-> buf, err |-> "Failed to read byte", p |-> p + 1]
         ELSE readString(b, p + 2, buf \o <<b[p], b[p + 1]>>, openBrackets)
    ELSE readString(b, p + 1, Append(buf, b[p]), openBrackets)

\* the value a string read by readHex or readString is returned as
stringValue(s, type, stack, t) ==
    IF s.err # ErrNil THEN Val(Nil, s.err, s.p, stack)
    ELSE Val([NewValue(t) EXCEPT !.Type = type, !.String = s.s], ErrNil, s.p, stack)

\* the number a numeric token stands for
numericValue(result, t) ==
    IF Atoi(t).err = ErrNil
    THEN [result EXCEPT !.Type = PDFTypeNumeric, !.Int = Atoi(t).n, !.Real = Atoi(t).n]
    ELSE [result EXCEPT !.Type = PDFTypeReal]

\* a numeric token t followed by a numeric token t2, r3 the token read next:
\* an object header, a reference, or two tokens to push back
readNumberThird(t, t2, r3, result) ==
    IF r3.err # ErrNil THEN Val(Nil, "Failed to read token", r3.p, r3.stack)
    ELSE IF r3.tok = KwObj
    THEN Val([result EXCEPT !.Type = PDFTypeObjDec, !.ID = Atoi(t).n, !.Gen = Atoi(t2).n],
             ErrNil, r3.p, r3.stack)
    ELSE IF r3.tok = KwR
    THEN Val([result EXCEPT !.Type = PDFTypeObjRef, !.ID = Atoi(t).n, !.Gen = Atoi(t2).n],
             ErrNil, r3.p, r3.stack)
    ELSE Val(numericValue(result, t), ErrNil, r3.p,
             IF r3.tok # <<>> THEN r3.stack \o <<r3.tok, t2>> ELSE Append(r3.stack, t2))

\* a numeric token t, r2 the token read after it
readNumberSecond(b, t, r2, result) ==
    IF r2.err # ErrNil THEN Val(Nil, "Failed to read token", r2.p, r2.stack)
    ELSE IF r2.tok = <<>> THEN Val(numericValue(result, t), ErrNil, r2.p, r2.stack)
    ELSE IF isNumeric(r2.tok)
    THEN readNumberThird(t, r2.tok, readToken(b, r2.p, r2.stack), result)
    ELSE Val(numericValue(result, t), ErrNil, r2.p, Append(r2.stack, r2.tok))

RECURSIVE readValue(_, _, _, _)
RECURSIVE readDictionary(_, _, _, _)
RECURSIVE readArray(_, _, _, _, _)

\* the loop of case "<<", v the value read for key
readDictionaryValue(b, key, v, result) ==
    IF v.err # ErrNil THEN Val(Nil, "Failed to read value for token", v.p, v.stack)
    ELSE IF v.val.Type = -1 THEN Val(result, ErrNil, v.p, v.stack)
    ELSE IF v.val.Type = PDFTypeToken /\ v.val.String = <<">", ">">>
    THEN Val([result EXCEPT !.Type = PDFTypeDictionary, !.Dictionary = (key :> v.val) @@ @],
             ErrNil, v.p, v.stack)
    ELSE readDictionary(b, v.p, v.stack, [result EXCEPT !.Dictionary = (key :> v.val) @@ @])

readDictionaryNewKey(b, key, nk, result) ==
    IF nk.err # ErrNil THEN Val(Nil, "Failed to read token", nk.p, nk.stack)
    ELSE readDictionaryValue(b, key, readValue(b, nk.p, nk.stack, nk.tok), result)

readDictionaryKey(b, k, result) ==
    IF k.err # ErrNil THEN Val(Nil, "Failed to read token", k.p, k.stack)
    ELSE IF k.tok = <<>> THEN Val(Nil, "Token is empty", k.p, k.stack)
    ELSE IF k.tok = <<">", ">">>
    THEN Val([result EXCEPT !.Type = PDFTypeDictionary], ErrNil, k.p, k.stack)
    ELSE readDictionaryNewKey(b, k.tok, readToken(b, k.p, k.stack), result)

readDictionary(b, p, stack, result) == readDictionaryKey(b, readToken(b, p, stack), result)

\* the loop of case "[", v the value read for the element
readArrayValue(b, v, result, tmpResult) ==
    IF v.err # ErrNil THEN Val(Nil, "Failed to read value for token", v.p, v.stack)
    ELSE IF v.val.Type = -1 THEN Val(result, ErrNil, v.p, v.stack)
    ELSE readArray(b, v.p, v.stack, result, Append(tmpResult, v.val))

readArrayKey(b, k, result, tmpResult) ==
    IF k.err # ErrNil THEN Val(Nil, "Failed to read token", k.p, k.stack)
    ELSE IF k.tok = <<>> THEN Val(Nil, "Token is empty", k.p, k.stack)
    ELSE IF k.tok = <<"]">>
    THEN Val([result EXCEPT !.Type = PDFTypeArray, !.Array = tmpResult], ErrNil, k.p, k.stack)
    ELSE readArrayValue(b, readValue(b, k.p, k.stack, k.tok), result, tmpResult)

readArray(b, p, stack, result, tmpResult) ==
    readArrayKey(b, readToken(b, p, stack), result, tmpResult)

\* readValue(r, t): the value that starts with the token t
readValue(b, p, stack, t) ==
    IF t = <<"<">> THEN stringValue(readHex(b, p, <<>>), PDFTypeHex, stack, t)
    ELSE IF t = <<"<", "<">> THEN readDictionary(b, p, stack, NewValue(t))
    ELSE IF t = <<"[">> THEN readArray(b, p, stack, NewValue(t), <<>>)
    ELSE IF t = <<"(">> THEN stringValue(readString(b, p, <<>>, 1), PDFTypeString, stack, t)
    ELSE IF t = KwStream THEN Val(Nil, "Stream not implemented", p, stack)
    ELSE IF isNumeric(t)
    THEN readNumberSecond(b, t, readToken(b, p, stack), [NewValue(t) EXCEPT !.Type = PDFTypeToken])
    ELSE IF t = KwTrue \/ t = KwFalse
    THEN Val([NewValue(t) EXCEPT !.Type = PDFTypeBoolean, !.Bool = (t = KwTrue)], ErrNil, p, stack)
    ELSE IF t = KwNull THEN Val([NewValue(t) EXCEPT !.Type = PDFTypeNull], ErrNil, p, stack)
    ELSE Val([NewValue(t) EXCEPT !.Type = PDFTypeToken], ErrNil, p, stack)

\* the value read from the start of the bytes b with an empty stack
parseValue(b, k) ==
    IF k.err # ErrNil THEN Val(Nil, "Failed to read token", k.p, k.stack)
    ELSE readValue(b, k.p, k.stack, k.tok)

(***************************************************************************)
(* findXref over the bytes of a stream                                     *)
(***************************************************************************)
\* the bytes of the end of the stream findXref looks at
ToRead == 1500

\* the streams made of up to n of the pieces ps, one after the other
RECURSIVE Joined(_, _)
Joined(ps, n) ==
    IF n = 0 THEN {<<>>}
    ELSE Joined(ps, n - 1) \cup {s \o q : s \in Joined(ps, n - 1), q \in ps}

MaxPieces == 4
FindPieces == {KwStartxref, <<" ">>, <<"\n">>, <<"1", "2">>, <<"%">>, <<"]">>}
FindStreams == Joined(FindPieces, MaxPieces)

\* NewPdfReaderFromStream up to the loop of findXref: the stream is moved
\* to its last ToRead bytes, or to its start when it is shorter; the rounds
\* of the loop are counted modulo 2
FindXrefEnter(f) ==
    /\ Running
    /\ readers' = [readers EXCEPT ![f] = [stack |-> <<>>, xrefPos |-> 0]]
    /\ call' = [op |-> "findXref", arg |-> <<f>>, at |-> "token",
                p |-> Len(files[f]) - Min(ToRead, Len(files[f])) + 1, round |-> 0]
    /\ UNCHANGED <<files, imp, pw, ret>>

\* findXref returns
FindXrefReturn(f, stack, xrefPos, err) ==
    /\ readers' = [readers EXCEPT ![f] = [stack |-> stack, xrefPos |-> xrefPos]]
    /\ ret' = Return("findXref", <<f>>, xrefPos, err)
    /\ call' = Nil

\* "startxref" has been read, t2 is the token read after it
FindXrefPosition(f, t2) ==
    IF t2.err # ErrNil THEN FindXrefReturn(f, t2.stack, 0, "Failed to find startxref token")
    ELSE IF Atoi(t2.tok).err # ErrNil
    THEN FindXrefReturn(f, t2.stack, 0, "Failed to convert xref position into integer")
    ELSE FindXrefReturn(f, t2.stack, Atoi(t2.tok).n, ErrNil)

\* one round of the loop, t the token read
FindXrefRound(f, t) ==
    IF t.err # ErrNil THEN FindXrefReturn(f, t.stack, 0, "Failed to read token")
    ELSE IF t.tok = KwStartxref THEN FindXrefPosition(f, readToken(files[f], t.p, t.stack))
    ELSE /\ call' = [call EXCEPT !.p = t.p, !.round = 1 - @]
         /\ readers' = [readers EXCEPT ![f].stack = t.stack]
         /\ ret' = ret

FindXrefToken ==
    /\ InCall("token")
    /\ FindXrefRound(call.arg[1], readToken(files[call.arg[1]], call.p, readers[call.arg[1]].stack))
    /\ UNCHANGED <<files, imp, pw>>

\* end of stream: make a reader over a stream of bytes; the loop of findXref
\* goes on as long as it can
InitFind == InitWith(FindStreams)

NextFind ==
    \/ \E f \in 1..Len(files) : FindXrefEnter(f)
    \/ FindXrefToken

SpecFind == InitFind /\ [][NextFind]_vars /\ WF_vars(FindXrefToken)

\* the bytes of "startxref" are nowhere in the stream
NoStartxref(b) ==
    \A i \in 1..(Len(b) - Len(KwStartxref) + 1) : SubSeq(b, i, i + Len(KwStartxref) - 1) # KwStartxref

\* C24: a reader made over a stream that holds no startxref comes to an end
\* and reports an error
C24_EndTerminal ==
    (InCall("token") /\ NoStartxref(files[1]))
        ~> (IsNil(call) /\ ret.op = "findXref" /\ ret.err # ErrNil)

\* a stream that ends inside a token or a comment ends the loop with an error
EndsInside(b) == Len(b) > 0 /\ b[Len(b)] \in {"2", "%"}

InsideTerminates ==
    (InCall("token") /\ NoStartxref(files[1]) /\ EndsInside(files[1]))
        ~> (IsNil(call) /\ ret.op = "findXref" /\ ret.err # ErrNil)

\* once the end of the stream is reached with nothing pushed back, every
\* further round of the loop reads the empty token and changes nothing
AtEndForever ==
    [][(InCall("token") /\ call.p > Len(files[1]) /\ readers[1].stack = <<>>)
          => (/\ ~IsNil(call') /\ call'.at = "token" /\ call'.p = call.p
              /\ UNCHANGED <<readers, ret>>)]_vars

\* the loop is going round at the end of a stream without startxref
LoopAtEnd ==
    /\ InCall("token")
    /\ NoStartxref(files[1])
    /\ call.p > Len(files[1])

\* findXref returns the number after "startxref"
FoundPosition ==
    (IsNil(call) /\ ret.op = "findXref" /\ ret.err = ErrNil)
        => /\ ret.val > 0
           /\ Itoa(ret.val) \in Joined({<<"1", "2">>}, MaxPieces)
           /\ ~NoStartxref(files[1])

(***************************************************************************)
(* Objects read from the bytes of a stream                                 *)
(***************************************************************************)
\* what a reader operation returns, and the stack it leaves behind
Got(val, err, stack) == [val |-> val, err |-> err, stack |-> stack]

\* ResolveObject from the token after the value on; the streams read here
\* hold no stream object
readObjectEnd(obj, value, t) ==
    IF t.err # ErrNil THEN Got(Nil, "Failed to read token", t.stack)
    ELSE IF t.tok # KwEndobj THEN Got(Nil, "Expected next token to be: endobj", t.stack)
    ELSE Got([NewValue(<<>>) EXCEPT !.ID = obj.ID, !.Gen = obj.Gen, !.Type = PDFTypeObject,
                                     !.Value = value],
             ErrNil, t.stack)

readObjectValue(b, obj, value) ==
    IF value.err # ErrNil THEN Got(Nil, "Failed to read value for token", value.stack)
    ELSE readObjectEnd(obj, value.val, readToken(b, value.p, value.stack))

readObjectToken(b, obj, t) ==
    IF t.err # ErrNil THEN Got(Nil, "Failed to read token", t.stack)
    ELSE readObjectValue(b, obj, readValue(b, t.p, t.stack, t.tok))

readObjectHeader(b, objSpec, obj) ==
    IF obj.err # ErrNil THEN Got(Nil, "Failed to read value for token", obj.stack)
    ELSE IF obj.val.Type # PDFTypeObjDec THEN Got(Nil, "expected type to be PDF_TYPE_OBJDEC", obj.stack)
    ELSE IF obj.val.ID # objSpec.ID THEN Got(Nil, "object ID does not match ObjSpec ID", obj.stack)
    ELSE IF obj.val.Gen # objSpec.Gen THEN Got(Nil, "Object Gen does not match ObjSpec Gen", obj.stack)
    ELSE readObjectToken(b, obj.val, readToken(b, obj.p, obj.stack))

readObjectFirst(b, objSpec, t) ==
    IF t.err # ErrNil THEN Got(Nil, "Failed to read token", t.stack)
    ELSE readObjectHeader(b, objSpec, readValue(b, t.p, t.stack, t.tok))

\* ResolveObject of a reference whose object xref places at offset
readObjectAt(b, stack, objSpec, offset) ==
    readObjectFirst(b, objSpec, readToken(b, offset + 1, stack))

\* resolveCompressedObject: the loop over the n pairs of the header of the
\* bytes b of an object stream, from pair i on
RECURSIVE readPairs(_, _, _, _, _, _, _)
readPairPos(b, n, objectIndex, i, found, objidx, t) ==
    IF t.err # ErrNil THEN [err |-> "Failed to read token", stack |-> t.stack, found |-> found]
    ELSE IF Atoi(t.tok).err # ErrNil
    THEN [err |-> "Failed to convert token into integer", stack |-> t.stack, found |-> found]
    ELSE readPairs(b, t.p, t.stack, n, objectIndex, i + 1,
                   IF i = objectIndex THEN [id |-> objidx, pos |-> Atoi(t.tok).n] ELSE found)

readPairIdx(b, n, objectIndex, i, found, t) ==
    IF t.err # ErrNil THEN [err |-> "Failed to read token", stack |-> t.stack, found |-> found]
    ELSE IF Atoi(t.tok).err # ErrNil
    THEN [err |-> "Failed to convert token into integer", stack |-> t.stack, found |-> found]
    ELSE readPairPos(b, n, objectIndex, i, found, Atoi(t.tok).n, readToken(b, t.p, t.stack))

readPairs(b, p, stack, n, objectIndex, i, found) ==
    IF i >= n THEN [err |-> ErrNil, stack |-> stack, found |-> found]
    ELSE readPairIdx(b, n, objectIndex, i, found, readToken(b, p, stack))

\* the sub-object once its first token has been read
readSubValue(subObjID, obj) ==
    IF obj.err # ErrNil THEN Got(Nil, "Failed to read value for token", obj.stack)
    ELSE Got([NewValue(<<>>) EXCEPT !.ID = subObjID, !.Gen = 0, !.Type = PDFTypeObject,
                                     !.Value = obj.val],
             ErrNil, obj.stack)

readSubToken(b, subObjID, t) ==
    IF t.err # ErrNil THEN Got(Nil, "Failed to read token", t.stack)
    ELSE readSubValue(subObjID, readValue(b, t.p, t.stack, t.tok))

\* a new reader is placed at subObjPos + first
readSubAt(b, first, pairs) ==
    IF pairs.err # ErrNil THEN Got(Nil, pairs.err, pairs.stack)
    ELSE readSubToken(b, pairs.found.id, readToken(b, pairs.found.pos + first + 1, pairs.stack))

\* resolveCompressedObject over the bytes b of the object stream, /N n and
\* /First first, for the sub-object at objectIndex
readSubObjectAt(b, stack, n, first, objectIndex) ==
    IF n <= 0 THEN Got(Nil, "No sub objects in compressed object", stack)
    ELSE readSubAt(b, first, readPairs(b, 1, stack, n, objectIndex, 0, [id |-> 0, pos |-> 0]))

\* PdfReader.ResolveObject of the reference objSpec, which xref places at offset
ReadObject(f, objSpec, offset) ==
    /\ Running
    /\ \E g \in {readObjectAt(files[f], readers[f].stack, objSpec, offset)} :
          /\ readers' = [readers EXCEPT ![f].stack = g.stack]
          /\ ret' = Return("ResolveObject", <<objSpec, offset>>, g.val, g.err)
    /\ UNCHANGED <<files, imp, pw, call>>

\* PdfReader.ResolveObject of a reference xrefStream places at objectIndex of
\* the object stream whose bytes are the stream
ReadSubObject(f, n, first, objectIndex) ==
    /\ Running
    /\ \E g \in {readSubObjectAt(files[f], readers[f].stack, n, first, objectIndex)} :
          /\ readers' = [readers EXCEPT ![f].stack = g.stack]
          /\ ret' = Return("resolveCompressedObject", <<n, first, objectIndex>>, g.val, g.err)
    /\ UNCHANGED <<files, imp, pw, call>>

\* the bytes of "1 0 obj ", "endobj ", "5 ", "7 ", "/X " and of the header
\* "1 0 2 2 " of an object stream of two objects
PcObj == <<"1", " ", "0", " ", "o", "b", "j", " ">>
PcEndobj == KwEndobj \o <<" ">>
PcFive == <<"5", " ">>
PcSeven == <<"7", " ">>
PcName == <<"/", "X", " ">>
PcPairs == <<"1", " ", "0", " ", "2", " ", "2", " ">>
ParsePieces == {PcObj, PcEndobj, PcFive, PcSeven, PcName, PcPairs}
ParseStreams == Joined(ParsePieces, MaxPieces)

\* pushback: objects and sub-objects are read from a stream of bytes by a
\* reader whose stack is empty when it is made
InitParse ==
    /\ files \in {<<b>> : b \in ParseStreams}
    /\ readers = [f \in 1..Len(files) |-> [stack |-> <<>>]]
    /\ imp = NewImporter
    /\ pw = NewPdfWriter
    /\ ret = Return("NewImporter", <<>>, 0, ErrNil)
    /\ call = Nil

NextParse ==
    \/ \E offset \in {0, Len(PcObj), Len(PcPairs) + Len(PcFive)} : ReadObject(1, ObjRef(1, 0), offset)
    \/ \E objectIndex \in 0..1 : ReadSubObject(1, 2, Len(PcPairs), objectIndex)

SpecParse == InitParse /\ [][NextParse]_vars

\* C30: whenever a reader operation has returned, the stack of tokens pushed
\* back is empty (and it never holds more than two)
C30_StackDrained ==
    \A f \in 1..Len(files) :
        IsNil(call) => (Len(readers[f].stack) <= 2 /\ readers[f].stack = <<>>)

\* the stack never holds more than two tokens when an operation returns
StackAtMostTwo == \A f \in 1..Len(files) : Len(readers[f].stack) <= 2

\* an object read whole from an empty stack leaves the stack empty
ObjectDrains ==
    [][(/\ ret'.op = "ResolveObject"
        /\ ret'.err = ErrNil
        /\ readers[1].stack = <<>>) => readers'[1].stack = <<>>]_vars

\* an object stream of two objects, the number 5 and the name /X: the first
\* has been resolved and the name is left on the stack
LeftOnStack ==
    /\ files[1] = PcPairs \o PcFive \o PcName
    /\ ret.op = "resolveCompressedObject"
    /\ ret.err = ErrNil
    /\ ret.val.Value.Int = 5
    /\ readers[1].stack = <<<<"/", "X">>>>

\* the token left behind is what a later call reads first
StaleTokenRead ==
    /\ files[1] = PcObj \o PcFive \o PcEndobj
    /\ ret.op = "ResolveObject"
    /\ ret.arg[2] = 0
    /\ ret.err # ErrNil

(***************************************************************************)
(* Values written as bytes and read back                                   *)
(***************************************************************************)
\* the values readValue builds from bytes
BName(t) == [NewValue(t) EXCEPT !.Type = PDFTypeToken]
BInt(n) == [NewValue(Itoa(n)) EXCEPT !.Type = PDFTypeNumeric, !.Int = n, !.Real = n]
BBool(x) == [NewValue(IF x THEN KwTrue ELSE KwFalse) EXCEPT !.Type = PDFTypeBoolean, !.Bool = x]
BNull == [NewValue(KwNull) EXCEPT !.Type = PDFTypeNull]
BString(s) == [NewValue(<<"(">>) EXCEPT !.Type = PDFTypeString, !.String = s]
BHex(s) == [NewValue(<<"<">>) EXCEPT !.Type = PDFTypeHex, !.String = s]
BArray(a) == [NewValue(<<"[">>) EXCEPT !.Type = PDFTypeArray, !.Array = a]
BDict(d) == [NewValue(<<"<", "<">>) EXCEPT !.Type = PDFTypeDictionary, !.Dictionary = d]

\* the keys of the dictionaries written, in the order "fwd" visits them
KeyA == <<"/", "K">>
KeyB == <<"/", "L">>
ByteKeys == <<KeyA, KeyB>>

RangeByteKeys(d, ord) ==
    IF ord = "fwd" THEN KeysIn(d, ByteKeys, 1) ELSE Reverse(KeysIn(d, ByteKeys, 1))

\* the bytes writeValue appends to the buffer of the current object, for a
\* value without references, streams and reals
RECURSIVE writeValueBytes(_, _)
RECURSIVE writeArrayBytes(_, _, _)
RECURSIVE writeDictionaryBytes(_, _, _, _)

writeArrayBytes(arr, i, ord) ==
    IF i > Len(arr) THEN <<>>
    ELSE writeValueBytes(arr[i], ord) \o writeArrayBytes(arr, i + 1, ord)

writeDictionaryBytes(d, keys, i, ord) ==
    IF i > Len(keys) THEN <<>>
    ELSE keys[i] \o <<" ">> \o writeValueBytes(d[keys[i]], ord)
             \o writeDictionaryBytes(d, keys, i + 1, ord)

writeValueBytes(value, ord) ==
    CASE value.Type = PDFTypeToken -> value.Token \o <<" ">>
      [] value.Type = PDFTypeNumeric -> Itoa(value.Int) \o <<" ">>
      [] value.Type = PDFTypeArray ->
            <<"[">> \o writeArrayBytes(value.Array, 1, ord) \o <<"]", "\n">>
      [] value.Type = PDFTypeDictionary ->
            <<"<", "<">>
                \o writeDictionaryBytes(value.Dictionary, RangeByteKeys(value.Dictionary, ord), 1, ord)
                \o <<">", ">">>
      [] value.Type = PDFTypeString -> <<"(">> \o value.String \o <<")">>
      [] value.Type = PDFTypeHex -> <<"<">> \o value.String \o <<">">>
      [] value.Type = PDFTypeBoolean -> IF value.Bool THEN KwTrue ELSE KwFalse
      [] value.Type = PDFTypeNull -> KwNull \o <<" ">>
      [] OTHER -> <<>>

\* newObj, then writeValue(value): the buffer of the current object holds
\* the bytes of the value
WriteValue(value, ord) ==
    /\ Running
    /\ pw' = [pw EXCEPT !.currentObj.buffer = writeValueBytes(value, ord)]
    /\ ret' = Return("writeValue", <<value>>, Nil, ErrNil)
    /\ UNCHANGED <<files, readers, imp, call>>

\* the buffer, followed by a line end as in a file, is read back: readToken,
\* then readValue, by a reader with an empty stack
ReadBack ==
    /\ Running
    /\ ret.op = "writeValue"
    /\ \E r \in {parseValue(pw.currentObj.buffer \o <<"\n">>,
                            readToken(pw.currentObj.buffer \o <<"\n">>, 1, <<>>))} :
          ret' = Return("readValue", ret.arg, r.val, r.err)
    /\ UNCHANGED <<files, readers, imp, pw, call>>

\* the trees written: names, integers, booleans, null, strings, hex strings,
\* arrays and dictionaries of them, and arrays and dictionaries of those
Leaves3 ==
    {BName(<<"/", "A">>), BInt(1), BInt(-2), BBool(TRUE), BBool(FALSE), BNull,
     BString(<<"a">>), BHex(<<"4", "F">>)}
Arrays3 ==
    {BArray(<<>>)} \cup {BArray(<<x>>) : x \in Leaves3} \cup {BArray(<<x, y>>) : x, y \in Leaves3}
Dicts3 ==
    {BDict(KeyA :> x) : x \in Leaves3} \cup {BDict((KeyA :> x) @@ (KeyB :> y)) : x, y \in Leaves3}
Inner3 == {BArray(<<>>), BArray(<<BBool(TRUE)>>), BDict(KeyA :> BBool(FALSE)), BDict(KeyA :> BInt(1))}
Nested3 ==
    {BArray(<<x, y>>) : x \in Inner3, y \in Leaves3 \cup Inner3}
    \cup {BArray(<<y, x>>) : x \in Inner3, y \in Leaves3}
    \cup {BDict((KeyA :> x) @@ (KeyB :> y)) : x \in Inner3, y \in {BBool(TRUE), BInt(1), BHex(<<"4", "F">>)}}
ValueTrees == Leaves3 \cup Arrays3 \cup Dicts3 \cup Nested3

\* serialization: write a value, read it back
InitWrite ==
    /\ files = <<>>
    /\ readers = <<>>
    /\ imp = NewImporter
    /\ pw = NewPdfWriter
    /\ ret = Return("NewImporter", <<>>, 0, ErrNil)
    /\ call = Nil

NextWrite ==
    \/ \E value \in ValueTrees, ord \in KeyOrders : WriteValue(value, ord)
    \/ ReadBack

SpecWrite == InitWrite /\ [][NextWrite]_vars

\* the same value: the same kind and the same content
RECURSIVE SameValue(_, _)
SameValue(a, b) ==
    /\ a.Type = b.Type
    /\ CASE a.Type = PDFTypeToken -> a.Token = b.Token
         [] a.Type = PDFTypeNumeric -> a.Int = b.Int
         [] a.Type = PDFTypeBoolean -> a.Bool = b.Bool
         [] a.Type \in {PDFTypeString, PDFTypeHex} -> a.String = b.String
         [] a.Type = PDFTypeArray ->
               /\ Len(a.Array) = Len(b.Array)
               /\ \A i \in 1..Len(a.Array) : SameValue(a.Array[i], b.Array[i])
         [] a.Type = PDFTypeDictionary ->
               /\ DOMAIN a.Dictionary = DOMAIN b.Dictionary
               /\ \A k \in DOMAIN a.Dictionary : SameValue(a.Dictionary[k], b.Dictionary[k])
         [] OTHER -> TRUE

\* C25: the bytes writeValue produces for a value are read back as the same
\* value
C25_RoundTrip ==
    ret.op = "readValue" => (ret.err = ErrNil /\ SameValue(ret.val, ret.arg[1]))

\* a boolean is an element of the array a, and not its last
BooleanInside(a) == \E i \in 1..(Len(a) - 1) : a[i].Type = PDFTypeBoolean

RECURSIVE BooleanFused(_)
BooleanFused(v) ==
    \/ v.Type = PDFTypeArray
       /\ (BooleanInside(v.Array) \/ \E i \in 1..Len(v.Array) : BooleanFused(v.Array[i]))
    \/ v.Type = PDFTypeDictionary
       /\ \E k \in DOMAIN v.Dictionary : BooleanFused(v.Dictionary[k])

\* a value is read back the same unless one of its arrays holds a boolean
\* followed by another element
RoundTripButBoolean ==
    (ret.op = "readValue" /\ ~BooleanFused(ret.arg[1]))
        => (ret.err = ErrNil /\ SameValue(ret.val, ret.arg[1]))

\* [true false] has been written and read back as an array of one name
FusedBooleans ==
    /\ ret.op = "readValue"
    /\ ret.arg[1] = BArray(<<BBool(TRUE), BBool(FALSE)>>)
    /\ pw.currentObj.buffer = <<"[">> \o KwTrue \o KwFalse \o <<"]", "\n">>
    /\ ret.err = ErrNil
    /\ Len(ret.val.Array) = 1
    /\ ret.val.Array[1].Token = KwTrue \o KwFalse

====
